---------------------------- MODULE Spec2Model ----------------------------
(***************************************************************************)
(* TranslationService (src/src/services/translationService.ts): the        *)
(* translation orchestration engine of venom-translator.                   *)
(*                                                                         *)
(* A JavaScript string is modelled as a sequence of one-character strings, *)
(* so that trim(), the regular expressions and the string concatenations   *)
(* of the source are computed character by character.  A suspended call    *)
(* (await fetch / await response.json()) is a value of pc; everything the  *)
(* code does between two suspensions is one atomic action, as in the       *)
(* JavaScript run-to-completion event loop.                                *)
(***************************************************************************)
EXTENDS Integers, Sequences, FiniteSets, TLC

(***************************************************************************)
(* Characters and character classes of the regular expressions             *)
(***************************************************************************)
\* \s
WhiteSpace == {" ", "\n", "\t"}
\* [.!?]
SentenceEnd == {".", "!", "?"}
\* [.,:;!?]
PunctuationMark == {".", ",", ":", ";", "!", "?"}
\* \d
Digit == {"0", "1", "2", "3", "4", "5", "6", "7", "8", "9"}
\* [a-z]
LowerLetters == <<"a", "b", "c", "d", "e", "f", "g", "h", "i", "j", "k", "l", "m", "n", "o", "p", "q", "r", "s", "t", "u", "v", "w", "x", "y", "z">>
\* [A-Z]
UpperLetters == <<"A", "B", "C", "D", "E", "F", "G", "H", "I", "J", "K", "L", "M", "N", "O", "P", "Q", "R", "S", "T", "U", "V", "W", "X", "Y", "Z">>

IsLower(ch) == \E i \in 1..26 : LowerLetters[i] = ch
IsUpper(ch) == \E i \in 1..26 : UpperLetters[i] = ch
LetterIndex(ch) ==
  CHOOSE i \in 1..26 : LowerLetters[i] = ch \/ UpperLetters[i] = ch

\* the Cyrillic letters U+0430..U+044F and U+0451 (lower case) and their
\* upper-case counterparts U+0410..U+042F and U+0401, by code point
CyrillicLower ==
  <<
     "U+0430", "U+0431", "U+0432", "U+0433", "U+0434", "U+0435", "U+0436",
     "U+0437", "U+0438", "U+0439", "U+043A", "U+043B", "U+043C", "U+043D",
     "U+043E", "U+043F", "U+0440", "U+0441", "U+0442", "U+0443", "U+0444",
     "U+0445", "U+0446", "U+0447", "U+0448", "U+0449", "U+044A", "U+044B",
     "U+044C", "U+044D", "U+044E", "U+044F", "U+0451" >>
CyrillicUpper ==
  <<
     "U+0410", "U+0411", "U+0412", "U+0413", "U+0414", "U+0415", "U+0416",
     "U+0417", "U+0418", "U+0419", "U+041A", "U+041B", "U+041C", "U+041D",
     "U+041E", "U+041F", "U+0420", "U+0421", "U+0422", "U+0423", "U+0424",
     "U+0425", "U+0426", "U+0427", "U+0428", "U+0429", "U+042A", "U+042B",
     "U+042C", "U+042D", "U+042E", "U+042F", "U+0401" >>
IsCyrillicLower(ch) == \E i \in DOMAIN CyrillicLower : CyrillicLower[i] = ch
IsCyrillicUpper(ch) == \E i \in DOMAIN CyrillicUpper : CyrillicUpper[i] = ch
CyrillicIndex(ch) ==
  CHOOSE i \in DOMAIN CyrillicLower :
    CyrillicLower[i] = ch \/ CyrillicUpper[i] = ch

\* [a-z] with the Cyrillic range and the i flag, as in fixCapitalization
IsLetter(ch) ==
  IsLower(ch) \/ IsUpper(ch) \/ IsCyrillicLower(ch) \/ IsCyrillicUpper(ch)
\* [A-Z] with the Cyrillic range U+0410..U+042F, as in splitIntoSentences
IsSentenceStart(ch) ==
  IsUpper(ch) \/ (IsCyrillicUpper(ch) /\ ch # "U+0401")

\* String.prototype.toLowerCase / toUpperCase, one character
toLowerChar(ch) ==
  IF IsUpper(ch) THEN LowerLetters[LetterIndex(ch)]
  ELSE IF IsCyrillicUpper(ch) THEN CyrillicLower[CyrillicIndex(ch)]
  ELSE ch
toUpperChar(ch) ==
  IF IsLower(ch) THEN UpperLetters[LetterIndex(ch)]
  ELSE IF IsCyrillicLower(ch) THEN CyrillicUpper[CyrillicIndex(ch)]
  ELSE ch

toLowerCase(s) == [i \in 1..Len(s) |-> toLowerChar(s[i])]
toUpperCase(s) == [i \in 1..Len(s) |-> toUpperChar(s[i])]

\* the null of the return type string | null; "null" is no character
Null == <<"null">>

Min(a, b) == IF a <= b THEN a ELSE b

(***************************************************************************)
(* String helpers                                                          *)
(***************************************************************************)
\* !s.trim()
IsBlank(s) == \A i \in 1..Len(s) : s[i] \in WhiteSpace

\* first index j >= i with s[j] not white space, Len(s)+1 if none
SkipWhiteSpace(s, i) ==
  IF \E j \in i..Len(s) : s[j] \notin WhiteSpace
  THEN CHOOSE j \in i..Len(s) : /\ s[j] \notin WhiteSpace
                                /\ \A k \in i..(j - 1) : s[k] \in WhiteSpace
  ELSE Len(s) + 1

\* last index j <= i with s[j] not white space, 0 if none
SkipWhiteSpaceBack(s, i) ==
  IF \E j \in 1..i : s[j] \notin WhiteSpace
  THEN CHOOSE j \in 1..i : /\ s[j] \notin WhiteSpace
                           /\ \A k \in (j + 1)..i : s[k] \in WhiteSpace
  ELSE 0

\* String.prototype.trim
trim(s) == SubSeq(s, SkipWhiteSpace(s, 1), SkipWhiteSpaceBack(s, Len(s)))

\* s.startsWith(p), s.includes(p)
StartsWith(s, p) == Len(p) <= Len(s) /\ SubSeq(s, 1, Len(p)) = p
Includes(s, p) ==
  \E i \in 1..(Len(s) - Len(p) + 1) : SubSeq(s, i, i + Len(p) - 1) = p

\* the concatenation of pieces[lo], ..., pieces[hi]
RECURSIVE ConcatRange(_, _, _)
ConcatRange(pieces, lo, hi) ==
  IF lo > hi THEN <<>>
  ELSE IF lo = hi THEN pieces[lo]
  ELSE LET mid == (lo + hi) \div 2
       IN  ConcatRange(pieces, lo, mid) \o ConcatRange(pieces, mid + 1, hi)

\* what a replace(/.../g, ...) returns: every character of the string
\* replaced by its piece
Concat(pieces) == ConcatRange(pieces, 1, Len(pieces))

\* the indices of s, in order
Indices(s) == [i \in 1..Len(s) |-> i]

\* first index j >= i with s[j] white space, Len(s)+1 if none
SkipToWhiteSpace(s, i) ==
  IF \E j \in i..Len(s) : s[j] \in WhiteSpace
  THEN CHOOSE j \in i..Len(s) : /\ s[j] \in WhiteSpace
                                /\ \A k \in i..(j - 1) : s[k] \notin WhiteSpace
  ELSE Len(s) + 1

\* s.split(/\s+/) of a trimmed, non-empty string
SplitWords(s) ==
  LET starts == SelectSeq(Indices(s),
                  LAMBDA i : /\ s[i] \notin WhiteSpace
                             /\ (i = 1 \/ s[i - 1] \in WhiteSpace))
  IN  [k \in 1..Len(starts) |->
         SubSeq(s, starts[k], SkipToWhiteSpace(s, starts[k]) - 1)]

Range(f) == {f[i] : i \in DOMAIN f}

(***************************************************************************)
(* cleanTranslatedText                                                     *)
(***************************************************************************)
\* .replace(/\s+/g, ' '): the first character of a run of white space
\* becomes a space, the others go
CollapseWhiteSpace(s) ==
  Concat([i \in 1..Len(s) |->
            IF s[i] \notin WhiteSpace THEN <<s[i]>>
            ELSE IF i = 1 \/ s[i - 1] \notin WhiteSpace THEN <<" ">>
            ELSE <<>>])

\* .replace(/\s+([.,:;!?])/g, '$1'): white space goes when the run it is
\* in ends before a punctuation mark
DropSpaceBeforePunctuation(s) ==
  Concat([i \in 1..Len(s) |->
            LET j == SkipWhiteSpace(s, i)
            IN  IF s[i] \in WhiteSpace /\ j <= Len(s)
                   /\ s[j] \in PunctuationMark
                THEN <<>> ELSE <<s[i]>>])

\* the punctuation mark s[i] is the first of a match of
\* /([.,:;!?])\s*([.,:;!?])/g or has no part in one: the matches pair the
\* marks of a chain (marks with nothing but white space between them) from
\* its start, so these are the marks at an odd place of their chain
FirstOfPair(s, i) ==
  LET InChain(k) == s[k] \in PunctuationMark \cup WhiteSpace
      a == CHOOSE a \in 1..i :
             /\ s[a] \in PunctuationMark
             /\ \A k \in a..i : InChain(k)
             /\ LET b == SkipWhiteSpaceBack(s, a - 1)
                IN  b = 0 \/ s[b] \notin PunctuationMark
  IN  Cardinality({k \in a..i : s[k] \in PunctuationMark}) % 2 = 1

\* .replace(/([.,:;!?])\s*([.,:;!?])/g, '$1 $2')
SpaceBetweenPunctuation(s) ==
  Concat([i \in 1..Len(s) |->
            LET before == SkipWhiteSpaceBack(s, i)
                after == SkipWhiteSpace(s, IF s[i] \in WhiteSpace THEN i
                                           ELSE i + 1)
                followed == after <= Len(s) /\ s[after] \in PunctuationMark
            IN  IF s[i] \in PunctuationMark
                THEN IF followed /\ FirstOfPair(s, i)
                     THEN <<s[i], " ">> ELSE <<s[i]>>
                ELSE IF s[i] \in WhiteSpace /\ followed /\ before >= 1
                        /\ s[before] \in PunctuationMark
                        /\ FirstOfPair(s, before)
                THEN <<>>
                ELSE <<s[i]>>])

cleanTranslatedText(text) ==
  LET a == CollapseWhiteSpace(text)
      b == DropSpaceBeforePunctuation(a)
      c == SpaceBetweenPunctuation(b)
  IN  trim(c)

(***************************************************************************)
(* normalizeLanguageCode                                                   *)
(***************************************************************************)
\* the mapping table, as <<alias, code>> pairs
mapping ==
  { <<<<"a", "u", "t", "o">>, <<"a", "u", "t", "o">>>>,
    <<<<"r", "u">>, <<"r", "u">>>>, <<<<"r", "u", "s", "s", "i", "a", "n">>, <<"r", "u">>>>,
    <<<<"e", "n">>, <<"e", "n">>>>, <<<<"e", "n", "g", "l", "i", "s", "h">>, <<"e", "n">>>>,
    <<<<"e", "s">>, <<"e", "s">>>>, <<<<"s", "p", "a", "n", "i", "s", "h">>, <<"e", "s">>>>,
    <<<<"f", "r">>, <<"f", "r">>>>, <<<<"f", "r", "e", "n", "c", "h">>, <<"f", "r">>>>,
    <<<<"d", "e">>, <<"d", "e">>>>, <<<<"g", "e", "r", "m", "a", "n">>, <<"d", "e">>>>,
    <<<<"i", "t">>, <<"i", "t">>>>, <<<<"i", "t", "a", "l", "i", "a", "n">>, <<"i", "t">>>>,
    <<<<"p", "t">>, <<"p", "t">>>>, <<<<"p", "o", "r", "t", "u", "g", "u", "e", "s", "e">>, <<"p", "t">>>>,
    <<<<"z", "h">>, <<"z", "h">>>>, <<<<"c", "h", "i", "n", "e", "s", "e">>, <<"z", "h">>>>, <<<<"z", "h", "-", "c", "n">>, <<"z", "h">>>>,
    <<<<"j", "a">>, <<"j", "a">>>>, <<<<"j", "a", "p", "a", "n", "e", "s", "e">>, <<"j", "a">>>>,
    <<<<"k", "o">>, <<"k", "o">>>>, <<<<"k", "o", "r", "e", "a", "n">>, <<"k", "o">>>>,
    <<<<"a", "r">>, <<"a", "r">>>>, <<<<"a", "r", "a", "b", "i", "c">>, <<"a", "r">>>>,
    <<<<"h", "i">>, <<"h", "i">>>>, <<<<"h", "i", "n", "d", "i">>, <<"h", "i">>>>,
    <<<<"t", "r">>, <<"t", "r">>>>, <<<<"t", "u", "r", "k", "i", "s", "h">>, <<"t", "r">>>>,
    <<<<"n", "l">>, <<"n", "l">>>>, <<<<"d", "u", "t", "c", "h">>, <<"n", "l">>>>,
    <<<<"s", "v">>, <<"s", "v">>>>, <<<<"s", "w", "e", "d", "i", "s", "h">>, <<"s", "v">>>>,
    <<<<"d", "a">>, <<"d", "a">>>>, <<<<"d", "a", "n", "i", "s", "h">>, <<"d", "a">>>>,
    <<<<"n", "o">>, <<"n", "o">>>>, <<<<"n", "o", "r", "w", "e", "g", "i", "a", "n">>, <<"n", "o">>>>,
    <<<<"f", "i">>, <<"f", "i">>>>, <<<<"f", "i", "n", "n", "i", "s", "h">>, <<"f", "i">>>>,
    <<<<"p", "l">>, <<"p", "l">>>>, <<<<"p", "o", "l", "i", "s", "h">>, <<"p", "l">>>> }

\* mapping[code.toLowerCase()] || code
normalizeLanguageCode(code) ==
  LET hits == {m \in mapping : m[1] = toLowerCase(code)}
  IN  IF hits = {} THEN code ELSE (CHOOSE m \in hits : TRUE)[2]

Auto == <<"a", "u", "t", "o">>

(***************************************************************************)
(* isValidTranslation                                                      *)
(***************************************************************************)
\* /^[A-Z][a-z]*$/.test(s)
IsCapitalizedWord(s) ==
  /\ Len(s) >= 1
  /\ IsUpper(s[1])
  /\ \A i \in 2..Len(s) : IsLower(s[i])

\* /^\d+$/.test(s)
IsNumeric(s) == Len(s) >= 1 /\ \A i \in 1..Len(s) : s[i] \in Digit

\* garbagePatterns, all case-insensitive
IsGarbage(translation) ==
  LET t == toLowerCase(translation)
  IN  \/ Includes(t, <<"m", "y", "m", "e", "m", "o", "r", "y", " ", "w", "a", "r", "n", "i", "n", "g">>)
      \/ Includes(t, <<"[", "t", "r", "a", "n", "s", "l", "a", "t", "i", "o", "n", " ", "e", "r", "r", "o", "r", "]">>)
      \/ Includes(t, <<"[", "u", "n", "t", "r", "a", "n", "s", "l", "a", "t", "e", "d", "]">>)
      \/ StartsWith(t, <<"e", "r", "r", "o", "r", ":">>)
      \/ StartsWith(t, <<"q", "u", "o", "t", "a", " ", "e", "x", "c", "e", "e", "d", "e", "d">>)

\* the repetition test from three words on
IsRepetitiveFromThree(cleanTranslation) ==
  LET words == SplitWords(cleanTranslation)
  IN  Len(words) >= 3 /\ 10 * Cardinality(Range(words)) < 7 * Len(words)

\* words.length > 3 && uniqueWords.size < words.length * 0.7
IsRepetitive(cleanTranslation) ==
  LET words == SplitWords(cleanTranslation)
  IN  Len(words) > 3 /\ 10 * Cardinality(Range(words)) < 7 * Len(words)

\* isValidTranslation that accepts every copy of the original
isValidTranslationOfCopies(translation, original, fromLang, toLang) ==
  IF translation = Null \/ translation = <<>> \/ IsBlank(translation)
  THEN FALSE
  ELSE LET cleanTranslation == toLowerCase(trim(translation))
           cleanOriginal == toLowerCase(trim(original))
       IN  IF cleanTranslation = cleanOriginal
           THEN TRUE
           ELSE /\ ~IsRepetitive(cleanTranslation)
                /\ ~IsGarbage(translation)

isValidTranslation(translation, original, fromLang, toLang) ==
  IF translation = Null \/ translation = <<>> \/ IsBlank(translation)
  THEN FALSE
  ELSE LET cleanTranslation == toLowerCase(trim(translation))
           cleanOriginal == toLowerCase(trim(original))
       IN  IF cleanTranslation = cleanOriginal
           THEN \/ Len(original) <= 3
                \/ IsCapitalizedWord(original)
                \/ IsNumeric(original)
           ELSE /\ ~IsRepetitive(cleanTranslation)
                /\ ~IsGarbage(translation)

(***************************************************************************)
(* dictionaryTranslation                                                   *)
(***************************************************************************)
\* the phrase table, as <<phrase, target language, translation>> triples;
\* the rows for the target languages en, es, fr and de whose translation is
\* written in unaccented Latin letters, and rows of and into ru and zh
translations ==
  { <<<<"h", "e", "l", "l", "o">>, <<"e", "s">>, <<"h", "o", "l", "a">>>>, <<<<"h", "e", "l", "l", "o">>, <<"f", "r">>, <<"b", "o", "n", "j", "o", "u", "r">>>>,
    <<<<"h", "e", "l", "l", "o">>, <<"d", "e">>, <<"h", "a", "l", "l", "o">>>>,
    <<<<"w", "o", "r", "l", "d">>, <<"e", "s">>, <<"m", "u", "n", "d", "o">>>>, <<<<"w", "o", "r", "l", "d">>, <<"f", "r">>, <<"m", "o", "n", "d", "e">>>>,
    <<<<"w", "o", "r", "l", "d">>, <<"d", "e">>, <<"w", "e", "l", "t">>>>,
    <<<<"g", "o", "o", "d", "b", "y", "e">>, <<"f", "r">>, <<"a", "u", " ", "r", "e", "v", "o", "i", "r">>>>, <<<<"g", "o", "o", "d", "b", "y", "e">>, <<"d", "e">>, <<"a", "u", "f", " ", "w", "i", "e", "d", "e", "r", "s", "e", "h", "e", "n">>>>,
    <<<<"t", "h", "a", "n", "k", " ", "y", "o", "u">>, <<"e", "s">>, <<"g", "r", "a", "c", "i", "a", "s">>>>, <<<<"t", "h", "a", "n", "k", " ", "y", "o", "u">>, <<"f", "r">>, <<"m", "e", "r", "c", "i">>>>,
    <<<<"t", "h", "a", "n", "k", " ", "y", "o", "u">>, <<"d", "e">>, <<"d", "a", "n", "k", "e">>>>,
    <<<<"y", "e", "s">>, <<"f", "r">>, <<"o", "u", "i">>>>, <<<<"y", "e", "s">>, <<"d", "e">>, <<"j", "a">>>>,
    <<<<"n", "o">>, <<"e", "s">>, <<"n", "o">>>>, <<<<"n", "o">>, <<"f", "r">>, <<"n", "o", "n">>>>, <<<<"n", "o">>, <<"d", "e">>, <<"n", "e", "i", "n">>>>,
    <<<<"p", "l", "e", "a", "s", "e">>, <<"e", "s">>, <<"p", "o", "r", " ", "f", "a", "v", "o", "r">>>>, <<<<"p", "l", "e", "a", "s", "e">>, <<"d", "e">>, <<"b", "i", "t", "t", "e">>>>,
    <<<<"h", "e", "l", "l", "o">>, <<"r", "u">>, <<"U+043F", "U+0440", "U+0438", "U+0432", "U+0435", "U+0442">>>>, <<<<"h", "e", "l", "l", "o">>, <<"z", "h">>, <<"U+4F60", "U+597D">>>>,
    <<<<"n", "o">>, <<"r", "u">>, <<"U+043D", "U+0435", "U+0442">>>>,
    <<<<"U+043F", "U+0440", "U+0438", "U+0432", "U+0435", "U+0442">>, <<"e", "n">>, <<"h", "e", "l", "l", "o">>>>, <<<<"U+043F", "U+0440", "U+0438", "U+0432", "U+0435", "U+0442">>, <<"d", "e">>, <<"h", "a", "l", "l", "o">>>>,
    <<<<"U+043D", "U+0435", "U+0442">>, <<"e", "n">>, <<"n", "o">>>>, <<<<"U+043D", "U+0435", "U+0442">>, <<"d", "e">>, <<"n", "e", "i", "n">>>> }

\* dictionaryTranslation that returns the entry of the table as it is
dictionaryTranslationAsIs(text, fromLang, toLang) ==
  LET lowerText == trim(toLowerCase(text))
      hits == {t \in translations : t[1] = lowerText /\ t[2] = toLang}
  IN  IF hits # {} THEN (CHOOSE t \in hits : TRUE)[3] ELSE text

dictionaryTranslation(text, fromLang, toLang) ==
  LET lowerText == trim(toLowerCase(text))
      hits == {t \in translations : t[1] = lowerText /\ t[2] = toLang}
  IN  IF hits # {}
      THEN LET translation == (CHOOSE t \in hits : TRUE)[3]
           IN  IF Len(text) >= 1 /\ text[1] = toUpperChar(text[1])
               THEN <<toUpperChar(translation[1])>> \o Tail(translation)
               ELSE translation
      ELSE text

(***************************************************************************)
(* intelligentTextSplit, splitIntoSentences                                *)
(***************************************************************************)
MAX_CHUNK_SIZE == 500

\* text.split(/\n\s*\n/): a separator is a newline, then white space, up to
\* the last newline of that white-space run; every run of white space with
\* two newlines or more holds one separator, from its first newline
SplitParagraphs(s) ==
  LET RunEnd(i) == SkipWhiteSpace(s, i) - 1
      IsSep(i) == /\ s[i] = "\n"
                  /\ \A k \in (SkipWhiteSpaceBack(s, i) + 1)..(i - 1) :
                       s[k] # "\n"
                  /\ \E k \in (i + 1)..RunEnd(i) : s[k] = "\n"
      SepEnd(i) == CHOOSE k \in (i + 1)..RunEnd(i) :
                     /\ s[k] = "\n"
                     /\ \A m \in (k + 1)..RunEnd(i) : s[m] # "\n"
      seps == SelectSeq(Indices(s), IsSep)
  IN  [k \in 1..(Len(seps) + 1) |->
         SubSeq(s, IF k = 1 THEN 1 ELSE SepEnd(seps[k - 1]) + 1,
                   IF k <= Len(seps) THEN seps[k] - 1 ELSE Len(s))]

\* the alternatives of the abbreviations pattern, in the order of the pattern
abbreviations ==
  << <<"m", "r">>, <<"m", "r", "s">>, <<"m", "s">>, <<"d", "r">>, <<"p", "r", "o", "f">>, <<"i", "n", "c">>, <<"l", "t", "d">>, <<"c", "o">>, <<"c", "o", "r", "p">>, <<"e", "t", "c">>,
     <<"v", "s">>, <<"i", ".", "e">>, <<"e", ".", "g">>, <<"a", ".", "m">>, <<"p", ".", "m">>, <<"u", ".", "s">>, <<"u", ".", "k">>, <<"p", "h", ".", "d">>, <<"b", ".", "a">>, <<"m", ".", "a">> >>

DotMarker == <<"<", "!", "D", "O", "T", "!", ">">>

\* the length of the match of the abbreviations pattern that starts at
\* s[i]: the first alternative that fits, any case, and the dot; 0 if none
AbbreviationLength(s, i) ==
  LET Matches(a) ==
        /\ i + Len(abbreviations[a]) <= Len(s)
        /\ toLowerCase(SubSeq(s, i, i + Len(abbreviations[a])))
             = abbreviations[a] \o <<".">>
  IN  IF \E a \in DOMAIN abbreviations : Matches(a)
      THEN Len(abbreviations[CHOOSE a \in DOMAIN abbreviations :
                               Matches(a) /\ \A b \in 1..(a - 1) : ~Matches(b)])
             + 1
      ELSE 0

\* replace(abbreviations, ...) finds a match at s[i]: the pattern fits and
\* no match found further left reaches s[i]
RECURSIVE IsAbbreviation(_, _)
IsAbbreviation(s, i) ==
  /\ AbbreviationLength(s, i) > 0
  /\ \A j \in {j \in (i - 4)..(i - 1) : j >= 1} :
       j + AbbreviationLength(s, j) > i => ~IsAbbreviation(s, j)

\* text.replace(abbreviations, match => match.replace('.', '<!DOT!>')):
\* only the first dot of each match is replaced
MaskAbbreviations(s) ==
  LET FirstDot(j) == CHOOSE d \in j..Len(s) :
                       s[d] = "." /\ \A k \in j..(d - 1) : s[k] # "."
  IN  Concat([i \in 1..Len(s) |->
                IF s[i] = "."
                   /\ \E j \in {j \in (i - 4)..(i - 1) : j >= 1} :
                        FirstDot(j) = i /\ IsAbbreviation(s, j)
                THEN DotMarker ELSE <<s[i]>>])

\* last index of the run of sentence terminators that starts at j
EndOfTerminators(s, j) ==
  IF \E k \in j..Len(s) : s[k] \notin SentenceEnd
  THEN (CHOOSE k \in j..Len(s) : /\ s[k] \notin SentenceEnd
                                 /\ \A m \in j..(k - 1) : s[m] \in SentenceEnd)
       - 1
  ELSE Len(s)

\* the indices at which a run of sentence terminators starts, in order
TerminatorRuns(s) ==
  SelectSeq(Indices(s),
            LAMBDA i : s[i] \in SentenceEnd
                         /\ (i = 1 \/ s[i - 1] \notin SentenceEnd))

\* tempText.split(/[.!?]+(?=\s+[A-Z]|\s*$)/): a separator is a run of
\* terminators before white space and an upper-case letter, or before
\* nothing but white space
SplitAtSentenceEnds(s) ==
  LET IsSep(j) == LET n == SkipWhiteSpace(s, EndOfTerminators(s, j) + 1)
                  IN  \/ n > Len(s)
                      \/ n > EndOfTerminators(s, j) + 1
                           /\ IsSentenceStart(s[n])
      seps == SelectSeq(TerminatorRuns(s), IsSep)
  IN  [k \in 1..(Len(seps) + 1) |->
         SubSeq(s, IF k = 1 THEN 1 ELSE EndOfTerminators(s, seps[k - 1]) + 1,
                   IF k <= Len(seps) THEN seps[k] - 1 ELSE Len(s))]

\* sentence.replace(/<!DOT!>/g, '.')
UnmaskDots(s) ==
  LET IsMarker(j) == /\ j >= 1 /\ j + Len(DotMarker) - 1 <= Len(s)
                     /\ SubSeq(s, j, j + Len(DotMarker) - 1) = DotMarker
  IN  Concat([i \in 1..Len(s) |->
                IF IsMarker(i) THEN <<".">>
                ELSE IF \E j \in (i - Len(DotMarker) + 1)..(i - 1) : IsMarker(j)
                THEN <<>>
                ELSE <<s[i]>>])

splitIntoSentences(text) ==
  LET tempText == MaskAbbreviations(text)
      sentences == SelectSeq(SplitAtSentenceEnds(tempText),
                             LAMBDA s : ~IsBlank(s))
  IN  [k \in 1..Len(sentences) |-> trim(UnmaskDots(sentences[k]))]

\* the packing loop over the sentences of one long paragraph, from
\* sentences[k] with an empty currentChunk; returns the chunks pushed.  The
\* loop adds sentences to currentChunk as long as the sum stays within
\* MAX_CHUNK_SIZE, and the first sentence in any case
RECURSIVE PackSentences(_, _)
PackSentences(sentences, k) ==
  IF k > Len(sentences) THEN <<>>
  ELSE LET Fits(b) == \/ b = k
                      \/ Len(Concat(SubSeq(sentences, k, b))) <= MAX_CHUNK_SIZE
           last == CHOOSE b \in k..Len(sentences) :
                     /\ Fits(b)
                     /\ (b = Len(sentences) \/ ~Fits(b + 1))
           currentChunk == Concat(SubSeq(sentences, k, last))
       IN  <<trim(currentChunk)>> \o PackSentences(sentences, last + 1)

\* the loop over the paragraphs: the chunks pushed for each of them
SplitParagraphList(paragraphs) ==
  Concat([p \in 1..Len(paragraphs) |->
            IF Len(paragraphs[p]) <= MAX_CHUNK_SIZE
            THEN <<paragraphs[p]>>
            ELSE PackSentences(splitIntoSentences(paragraphs[p]), 1)])

intelligentTextSplit(text) ==
  IF Len(text) <= MAX_CHUNK_SIZE
  THEN <<text>>
  ELSE LET chunks == SplitParagraphList(SplitParagraphs(text))
       IN  IF Len(chunks) > 0 THEN chunks ELSE <<text>>

(***************************************************************************)
(* postProcessTranslation                                                  *)
(***************************************************************************)
\* text.split(/([.!?]+)/) when withSpace is FALSE and
\* text.split(/([.!?]+\s*)/) when it is TRUE: the pieces and the captured
\* separators alternate
SplitKeepingTerminators(s, withSpace) ==
  LET End(j) == IF withSpace
                THEN SkipWhiteSpace(s, EndOfTerminators(s, j) + 1) - 1
                ELSE EndOfTerminators(s, j)
      seps == TerminatorRuns(s)
  IN  [k \in 1..(2 * Len(seps) + 1) |->
         IF k % 2 = 0
         THEN SubSeq(s, seps[k \div 2], End(seps[k \div 2]))
         ELSE SubSeq(s, IF k = 1 THEN 1 ELSE End(seps[k \div 2]) + 1,
                        IF k \div 2 < Len(seps) THEN seps[k \div 2 + 1] - 1
                        ELSE Len(s))]

\* parts.join(sep)
Join(parts, sep) ==
  Concat([k \in 1..Len(parts) |->
            IF k = 1 THEN parts[k] ELSE sep \o parts[k]])

\* sentence.toLowerCase().replace(/\s+/g, ' ') of the trimmed sentences[i]
NormalizedSentence(sentences, i) ==
  CollapseWhiteSpace(toLowerCase(trim(sentences[i])))

\* the loop of removeDuplicateSentences: of the elements at the odd places
\* (1-based) those whose normalized text is at no odd place before, each
\* with the element after it
KeepFirstOccurrences(sentences) ==
  LET places == SelectSeq(Indices(sentences),
                  LAMBDA i :
                    /\ i % 2 = 1
                    /\ trim(sentences[i]) # <<>>
                    /\ \A j \in 1..(i - 1) :
                         j % 2 = 1 => NormalizedSentence(sentences, j)
                                        # NormalizedSentence(sentences, i))
  IN  [k \in 1..Len(places) |->
         trim(sentences[places[k]])
           \o (IF places[k] + 1 <= Len(sentences)
               THEN sentences[places[k] + 1] ELSE <<>>)]

removeDuplicateSentences(text) ==
  LET sentences == SelectSeq(SplitKeepingTerminators(text, FALSE),
                             LAMBDA s : ~IsBlank(s))
      cleanSentences == KeepFirstOccurrences(sentences)
  IN  trim(CollapseWhiteSpace(Join(cleanSentences, <<" ">>)))

\* sentence.replace(/^\s*([a-z])/i, ...): upper-case the first character
\* after the leading white space when it is a letter
CapitalizeFirst(sentence) ==
  LET n == SkipWhiteSpace(sentence, 1)
  IN  IF n <= Len(sentence) /\ IsLetter(sentence[n])
      THEN [sentence EXCEPT ![n] = toUpperChar(sentence[n])]
      ELSE sentence

fixCapitalization(text, toLang) ==
  LET sentences == SplitKeepingTerminators(text, TRUE)
      fixed == [i \in 1..Len(sentences) |->
                  IF i % 2 = 1 /\ ~IsBlank(sentences[i])
                  THEN CapitalizeFirst(sentences[i])
                  ELSE sentences[i]]
  IN  Join(fixed, <<>>)

\* .replace(/([.!?])\s*([a-z])/gi, '$1 $2'): a terminator before a letter,
\* with or without white space between them, is followed by one space
SpaceAfterTerminator(s) ==
  Concat([i \in 1..Len(s) |->
            LET before == SkipWhiteSpaceBack(s, i)
                after == SkipWhiteSpace(s, IF s[i] \in WhiteSpace THEN i
                                           ELSE i + 1)
                followed == after <= Len(s) /\ IsLetter(s[after])
            IN  IF s[i] \in SentenceEnd
                THEN IF followed THEN <<s[i], " ">> ELSE <<s[i]>>
                ELSE IF s[i] \in WhiteSpace /\ followed /\ before >= 1
                        /\ s[before] \in SentenceEnd
                THEN <<>>
                ELSE <<s[i]>>])

\* .replace(/\s{2,}/g, ' '): a run of two or more characters of white
\* space becomes one space
CollapseLongWhiteSpace(s) ==
  Concat([i \in 1..Len(s) |->
            IF s[i] \in WhiteSpace
               /\ SkipWhiteSpace(s, i) - SkipWhiteSpaceBack(s, i) > 2
            THEN IF i = SkipWhiteSpaceBack(s, i) + 1 THEN <<" ">> ELSE <<>>
            ELSE <<s[i]>>])

fixPunctuation(text, toLang) ==
  LET a == DropSpaceBeforePunctuation(text)
      b == SpaceAfterTerminator(a)
      c == CollapseLongWhiteSpace(b)
  IN  trim(c)

postProcessTranslation(text, fromLang, toLang) ==
  fixPunctuation(fixCapitalization(removeDuplicateSentences(text), toLang),
                 toLang)

(***************************************************************************)
(* reconstructText, restoreFormatting                                      *)
(***************************************************************************)
\* .replace(/\n{3,}/g, '\n\n'): of a run of three newlines or more the
\* first two stay
CollapseNewlines(s) ==
  LET First(i) == CHOOSE a \in 1..i :
                    /\ \A k \in a..i : s[k] = "\n"
                    /\ (a = 1 \/ s[a - 1] # "\n")
      Last(i) == CHOOSE b \in i..Len(s) :
                   /\ \A k \in i..b : s[k] = "\n"
                   /\ (b = Len(s) \/ s[b + 1] # "\n")
  IN  Concat([i \in 1..Len(s) |->
                IF s[i] = "\n" /\ Last(i) - First(i) >= 2 /\ i > First(i) + 1
                THEN <<>> ELSE <<s[i]>>])

\* reconstructText that pushes the chunks from the last to the first
reconstructTextReversed(originalChunks, translatedChunks) ==
  LET n == Len(originalChunks)
      result == [i \in 1..n |->
                   LET original == originalChunks[n + 1 - i]
                       translated ==
                         IF n + 1 - i <= Len(translatedChunks)
                            /\ translatedChunks[n + 1 - i] # <<>>
                         THEN translatedChunks[n + 1 - i] ELSE original
                   IN  IF IsBlank(original) THEN original ELSE translated]
  IN  CollapseNewlines(Join(result, <<"\n", "\n">>))

reconstructText(originalChunks, translatedChunks) ==
  LET result == [i \in 1..Len(originalChunks) |->
                   LET original == originalChunks[i]
                       translated ==
                         IF i <= Len(translatedChunks)
                            /\ translatedChunks[i] # <<>>
                         THEN translatedChunks[i] ELSE original
                   IN  IF IsBlank(original) THEN original ELSE translated]
  IN  CollapseNewlines(Join(result, <<"\n", "\n">>))

\* original.match(/^\s*/)[0] and original.match(/\s*$/)[0]
leadingWhitespace(original) ==
  SubSeq(original, 1, SkipWhiteSpace(original, 1) - 1)
trailingWhitespace(original) ==
  SubSeq(original, SkipWhiteSpaceBack(original, Len(original)) + 1,
         Len(original))

\* restoreFormatting that restores the leading white space only
restoreFormattingLeading(original, translated) ==
  leadingWhitespace(original) \o trim(translated)

restoreFormatting(original, translated) ==
  leadingWhitespace(original) \o trim(translated)
    \o trailingWhitespace(original)

(***************************************************************************)
(* detectLanguageLocally                                                   *)
(***************************************************************************)
\* the character classes of scriptCounts; Cyrillic is IsCyrillicLower and
\* IsCyrillicUpper (the i flag).  The ideograph range U+4E00..U+9FAF and
\* the Hangul range U+AC00..U+D7A3 are represented by the characters of the
\* dictionary's greetings; the class written for japanese lists exactly
\* seven characters.
Chinese == {"U+4F60", "U+597D", "U+4E16", "U+754C"}
Japanese ==
  {"U+3072", "U+3089", "U+304C", "U+306A", "U+30AB", "U+30BF", "U+30CA"}
Korean == {"U+C548", "U+B155", "U+C138", "U+ACC4"}
\* the Arabic letters U+0621..U+064A
Arabic ==
  {
     "U+0621", "U+0622", "U+0623", "U+0624", "U+0625", "U+0626", "U+0627",
     "U+0628", "U+0629", "U+062A", "U+062B", "U+062C", "U+062D", "U+062E",
     "U+062F", "U+0630", "U+0631", "U+0632", "U+0633", "U+0634", "U+0635",
     "U+0636", "U+0637", "U+0638", "U+0639", "U+063A", "U+063B", "U+063C",
     "U+063D", "U+063E", "U+063F", "U+0640", "U+0641", "U+0642", "U+0643",
     "U+0644", "U+0645", "U+0646", "U+0647", "U+0648", "U+0649", "U+064A" }

\* (text.match(class) || []).length
CountIn(text, class) == Cardinality({i \in 1..Len(text) : text[i] \in class})

\* Object.entries(scriptCounts), in insertion order; latin has no case in
\* the switch
scriptCounts(text) ==
  << [script |-> "cyrillic", lang |-> <<"r", "u">>,
      count |-> CountIn(text, Range(CyrillicLower) \cup Range(CyrillicUpper))],
     [script |-> "latin", lang |-> Null,
      count |-> CountIn(text, Range(LowerLetters) \cup Range(UpperLetters))],
     [script |-> "chinese", lang |-> <<"z", "h">>,
      count |-> CountIn(text, Chinese)],
     [script |-> "japanese", lang |-> <<"j", "a">>,
      count |-> CountIn(text, Japanese)],
     [script |-> "korean", lang |-> <<"k", "o">>,
      count |-> CountIn(text, Korean)],
     [script |-> "arabic", lang |-> <<"a", "r">>,
      count |-> CountIn(text, Arabic)] >>

\* Object.entries(languageMarkers), in insertion order (lower-case letters;
\* the alphabet of the model has no upper-case accented letter)
languageMarkers ==
  << [lang |-> <<"d", "e">>, pattern |-> {"U+00E4", "U+00F6", "U+00FC", "U+00DF"}],
     [lang |-> <<"f", "r">>, pattern |->
        {"U+00E0", "U+00E2", "U+00E4", "U+00E9", "U+00E8", "U+00EA",
         "U+00EB", "U+00EF", "U+00EE", "U+00F4", "U+00F6", "U+00F9",
         "U+00FB", "U+00FC", "U+00FF", "U+00E7"}],
     [lang |-> <<"e", "s">>, pattern |->
        {"U+00E1", "U+00E9", "U+00ED", "U+00F3", "U+00FA", "U+00F1",
         "U+00FC", "U+00BF", "U+00A1"}],
     [lang |-> <<"i", "t">>, pattern |->
        {"U+00E0", "U+00E8", "U+00E9", "U+00EC", "U+00ED", "U+00EE",
         "U+00F2", "U+00F3", "U+00F9"}],
     [lang |-> <<"p", "t">>, pattern |-> {"U+00E3", "U+00E7", "U+00F5"}],
     [lang |-> <<"p", "l">>, pattern |->
        {"U+0105", "U+0107", "U+0119", "U+0142", "U+0144", "U+00F3",
         "U+015B", "U+017A", "U+017C"}],
     [lang |-> <<"t", "r">>, pattern |->
        {"U+00E7", "U+011F", "U+0131", "U+00F6", "U+015F", "U+00FC"}] >>

\* commonWords; a character outside ASCII is written as its code point
commonWords ==
  <<
  [lang |-> <<"r", "u">>, wordList |-> <<
       <<"U+0438">>, <<"U+0432">>, <<"U+043D", "U+0435">>,
       <<"U+043D", "U+0430">>, <<"U+044F">>,
       <<"U+0431", "U+044B", "U+0442", "U+044C">>, <<"U+043E", "U+043D">>,
       <<"U+0441">>, <<"U+0447", "U+0442", "U+043E">>, <<"U+0430">>,
       <<"U+043F", "U+043E">>, <<"U+044D", "U+0442", "U+043E">>,
       <<"U+043E", "U+043D", "U+0430">>,
       <<"U+044D", "U+0442", "U+043E", "U+0442">>, <<"U+043A">>,
       <<"U+043D", "U+043E">>, <<"U+043E", "U+043D", "U+0438">>,
       <<"U+043C", "U+044B">>, <<"U+043A", "U+0430", "U+043A">>,
       <<"U+0438", "U+0437">>, <<"U+0437", "U+0430">>,
       <<"U+043E", "U+0442">>, <<"U+0434", "U+043E">>,
       <<"U+043F", "U+0440", "U+0438">>, <<"U+0434", "U+043B", "U+044F">>,
       <<"U+0438", "U+043B", "U+0438">>, <<"U+0443", "U+0436", "U+0435">>,
       <<"U+0435", "U+0441", "U+043B", "U+0438">>,
       <<"U+0432", "U+0440", "U+0435", "U+043C", "U+044F">>,
       <<"U+0431", "U+043E", "U+043B", "U+0435", "U+0435">>,
       <<"U+043D", "U+0435", "U+0442">>, <<"U+0442", "U+0430", "U+043A">>,
       <<"U+0432", "U+044B">>,
       <<"U+0441", "U+043A", "U+0430", "U+0437", "U+0430", "U+0442", "U+044C">>,
       <<"U+044D", "U+0442", "U+043E", "U+0433", "U+043E">>,
       <<"U+043C", "U+043E", "U+0436", "U+0435", "U+0442">>,
       <<"U+043F", "U+043E", "U+0441", "U+043B", "U+0435">>,
       <<"U+0441", "U+043B", "U+043E", "U+0432", "U+043E">>,
       <<"U+0434", "U+0435", "U+043D", "U+044C">>,
       <<"U+0435", "U+0433", "U+043E">>,
       <<"U+043D", "U+043E", "U+0432", "U+044B", "U+0439">>,
       <<"U+0434", "U+0432", "U+0430">>, <<"U+043D", "U+0430", "U+0448">>,
       <<"U+0442", "U+043E", "U+043C">>,
       <<"U+0434", "U+0435", "U+043B", "U+043E">>,
       <<"U+0436", "U+0438", "U+0437", "U+043D", "U+044C">> >>],
  [lang |-> <<"e", "n">>, wordList |-> <<
       <<"t", "h", "e">>, <<"b", "e">>, <<"t", "o">>, <<"o", "f">>,
       <<"a", "n", "d">>, <<"a">>, <<"i", "n">>, <<"t", "h", "a", "t">>,
       <<"h", "a", "v", "e">>, <<"i">>, <<"i", "t">>, <<"f", "o", "r">>,
       <<"n", "o", "t">>, <<"o", "n">>, <<"w", "i", "t", "h">>, <<"h", "e">>,
       <<"a", "s">>, <<"y", "o", "u">>, <<"d", "o">>, <<"a", "t">>,
       <<"t", "h", "i", "s">>, <<"b", "u", "t">>, <<"h", "i", "s">>,
       <<"b", "y">>, <<"f", "r", "o", "m">>, <<"t", "h", "e", "y">>,
       <<"s", "h", "e">>, <<"o", "r">>, <<"a", "n">>, <<"w", "i", "l", "l">>,
       <<"m", "y">>, <<"o", "n", "e">>, <<"a", "l", "l">>,
       <<"w", "o", "u", "l", "d">>, <<"t", "h", "e", "r", "e">>,
       <<"t", "h", "e", "i", "r">>, <<"w", "h", "a", "t">>, <<"s", "o">>,
       <<"u", "p">>, <<"o", "u", "t">>, <<"i", "f">>,
       <<"a", "b", "o", "u", "t">>, <<"w", "h", "o">>, <<"g", "e", "t">>,
       <<"w", "h", "i", "c", "h">>, <<"g", "o">>, <<"m", "e">>,
       <<"w", "h", "e", "n">>, <<"m", "a", "k", "e">>, <<"c", "a", "n">>,
       <<"l", "i", "k", "e">>, <<"t", "i", "m", "e">>, <<"n", "o">>,
       <<"j", "u", "s", "t">>, <<"h", "i", "m">>, <<"k", "n", "o", "w">>,
       <<"t", "a", "k", "e">>, <<"p", "e", "o", "p", "l", "e">>,
       <<"i", "n", "t", "o">>, <<"y", "e", "a", "r">>,
       <<"y", "o", "u", "r">>, <<"g", "o", "o", "d">>,
       <<"s", "o", "m", "e">>, <<"c", "o", "u", "l", "d">>,
       <<"t", "h", "e", "m">>, <<"s", "e", "e">>,
       <<"o", "t", "h", "e", "r">>, <<"t", "h", "a", "n">>,
       <<"t", "h", "e", "n">>, <<"n", "o", "w">>, <<"l", "o", "o", "k">>,
       <<"o", "n", "l", "y">>, <<"c", "o", "m", "e">>, <<"i", "t", "s">>,
       <<"o", "v", "e", "r">>, <<"t", "h", "i", "n", "k">>,
       <<"a", "l", "s", "o">>, <<"b", "a", "c", "k">>,
       <<"a", "f", "t", "e", "r">>, <<"u", "s", "e">>, <<"t", "w", "o">>,
       <<"h", "o", "w">>, <<"o", "u", "r">>, <<"w", "o", "r", "k">>,
       <<"f", "i", "r", "s", "t">>, <<"w", "e", "l", "l">>,
       <<"w", "a", "y">>, <<"e", "v", "e", "n">>, <<"n", "e", "w">>,
       <<"w", "a", "n", "t">>, <<"b", "e", "c", "a", "u", "s", "e">>,
       <<"a", "n", "y">>, <<"t", "h", "e", "s", "e">>,
       <<"g", "i", "v", "e">>, <<"d", "a", "y">>, <<"m", "o", "s", "t">>,
       <<"u", "s">> >>],
  [lang |-> <<"e", "s">>, wordList |-> <<
       <<"e", "l">>, <<"l", "a">>, <<"d", "e">>, <<"q", "u", "e">>, <<"y">>,
       <<"a">>, <<"e", "n">>, <<"u", "n">>, <<"s", "e", "r">>, <<"s", "e">>,
       <<"n", "o">>, <<"t", "e">>, <<"l", "o">>, <<"l", "e">>, <<"d", "a">>,
       <<"s", "u">>, <<"p", "o", "r">>, <<"s", "o", "n">>, <<"c", "o", "n">>,
       <<"p", "a", "r", "a">>, <<"u", "n", "a">>, <<"d", "e", "l">>,
       <<"l", "o", "s">>, <<"a", "l">>, <<"t", "o", "d", "o">>,
       <<"e", "s", "t", "U+00E1">>, <<"m", "u", "y">>, <<"f", "u", "e">>,
       <<"h", "a", "n">>, <<"e", "r", "a">>, <<"s", "o", "b", "r", "e">>,
       <<"m", "i">>, <<"e", "s", "t", "U+00E1">>,
       <<"e", "n", "t", "r", "e">>, <<"d", "u", "r", "a", "n", "t", "e">>,
       <<"u", "n">>, <<"a", "n", "t", "e", "s">>,
       <<"l", "l", "e", "g", "a", "r">>, <<"l", "u", "e", "g", "o">>,
       <<"m", "u", "c", "h", "o">>, <<"h", "a", "b", "e", "r">>,
       <<"q", "u", "U+00E9">>, <<"a", "U+00F1", "o">>, <<"d", "o", "s">>,
       <<"q", "u", "e", "r", "e", "r">>, <<"e", "n", "t", "r", "e">>,
       <<"a", "s", "U+00ED">>, <<"p", "r", "i", "m", "e", "r", "o">>,
       <<"d", "e", "s", "d", "e">>, <<"g", "r", "a", "n", "d", "e">>,
       <<"e", "s", "o">>, <<"n", "i">>, <<"n", "o", "s">>,
       <<"l", "l", "e", "g", "a", "r">>, <<"p", "a", "s", "a", "r">>,
       <<"t", "i", "e", "m", "p", "o">>, <<"e", "l", "l", "a">>,
       <<"s", "U+00ED">>, <<"d", "U+00ED", "a">>, <<"u", "n", "o">>,
       <<"b", "i", "e", "n">>, <<"p", "o", "c", "o">>,
       <<"d", "e", "b", "e", "r">>,
       <<"e", "n", "t", "o", "n", "c", "e", "s">>,
       <<"p", "o", "n", "e", "r">>, <<"a", "q", "u", "U+00ED">>,
       <<"p", "a", "r", "e", "c", "e", "r">>, <<"f", "i", "n">>,
       <<"t", "a", "n", "t", "o">>, <<"d", "o", "n", "d", "e">>,
       <<"s", "a", "b", "e", "r">>, <<"n", "a", "d", "a">>,
       <<"c", "a", "d", "a">>, <<"m", "e", "n", "o", "s">>,
       <<"d", "a", "r">>, <<"c", "u", "e", "n", "t", "a">>,
       <<"c", "u", "a", "n", "d", "o">>, <<"m", "u", "y">>,
       <<"s", "i", "n">>, <<"v", "e", "z">>, <<"m", "u", "j", "e", "r">>,
       <<"v", "i", "d", "a">>, <<"i", "g", "u", "a", "l">>,
       <<"m", "o", "m", "e", "n", "t", "o">>, <<"g", "r", "u", "p", "o">>,
       <<"a", "g", "u", "a">>, <<"r", "e", "a", "l", "i", "z", "a", "r">>,
       <<"g", "u", "e", "r", "r", "a">>,
       <<"h", "i", "s", "t", "o", "r", "i", "a">>,
       <<"f", "o", "r", "m", "a">>, <<"e", "s", "p", "e", "r", "a", "r">>,
       <<"m", "i", "e", "m", "b", "r", "o">>, <<"p", "a", "r", "t", "e">> >>],
  [lang |-> <<"f", "r">>, wordList |-> <<
       <<"l", "e">>, <<"d", "e">>, <<"e", "t">>, <<"U+00E0">>, <<"u", "n">>,
       <<"i", "l">>, <<"U+00EA", "t", "r", "e">>, <<"e", "t">>, <<"e", "n">>,
       <<"a", "v", "o", "i", "r">>, <<"q", "u", "e">>,
       <<"p", "o", "u", "r">>, <<"d", "a", "n", "s">>, <<"c", "e">>,
       <<"s", "o", "n">>, <<"u", "n", "e">>, <<"s", "u", "r">>,
       <<"a", "v", "e", "c">>, <<"n", "e">>, <<"s", "e">>, <<"p", "a", "s">>,
       <<"t", "o", "u", "t">>, <<"p", "l", "u", "s">>, <<"p", "a", "r">>,
       <<"g", "r", "a", "n", "d">>, <<"c", "e">>, <<"l", "e">>, <<"i", "l">>,
       <<"a", "v", "o", "i", "r">>, <<"s", "o", "n">>, <<"q", "u", "e">>,
       <<"s", "e">>, <<"q", "u", "i">>, <<"e", "n">>, <<"v", "o", "u", "s">>,
       <<"s", "u", "r">>, <<"a", "v", "e", "c">>, <<"n", "e">>, <<"y">>,
       <<"a", "l", "l", "e", "r">>, <<"e", "n">>,
       <<"s", "a", "v", "o", "i", "r">>, <<"m", "e">>, <<"j", "e">>,
       <<"v", "o", "i", "r">>, <<"e", "n">>, <<"a", "u">>, <<"d", "u">>,
       <<"t", "e">>, <<"d", "o", "n", "n", "e", "r">>,
       <<"l", "U+00E9", "g", "a", "l">>, <<"l", "u", "i">>, <<"o", "u">>,
       <<"l", "U+00E0">>, <<"m", "a", "r", "c", "h", "U+00E9">>,
       <<"l", "e", "s">>, <<"m", "a", "i", "s">>, <<"U+00E0">>,
       <<"e", "l", "l", "e">>, <<"d", "e", "u", "x">>,
       <<"m", "U+00EA", "m", "e">>, <<"f", "a", "i", "r", "e">>,
       <<"d", "i", "r", "e">>, <<"s", "o", "u", "s">>, <<"o", "l", "d">>,
       <<"m", "o", "t">> >>],
  [lang |-> <<"d", "e">>, wordList |-> <<
       <<"d", "e", "r">>, <<"d", "i", "e">>, <<"u", "n", "d">>, <<"i", "n">>,
       <<"d", "e", "n">>, <<"v", "o", "n">>, <<"z", "u">>, <<"d", "a", "s">>,
       <<"m", "i", "t">>, <<"s", "i", "c", "h">>, <<"d", "e", "s">>,
       <<"a", "u", "f">>, <<"f", "U+00FC", "r">>, <<"i", "s", "t">>,
       <<"i", "m">>, <<"d", "e", "m">>, <<"n", "i", "c", "h", "t">>,
       <<"e", "i", "n">>, <<"e", "i", "n", "e">>, <<"a", "l", "s">>,
       <<"a", "u", "c", "h">>, <<"n", "a", "c", "h">>,
       <<"w", "i", "r", "d">>, <<"a", "n">>,
       <<"w", "e", "r", "d", "e", "n">>, <<"a", "u", "s">>, <<"e", "r">>,
       <<"h", "a", "t">>, <<"d", "a", "U+00DF">>, <<"s", "i", "e">>,
       <<"z", "u">>, <<"e", "i", "n">>, <<"o", "d", "e", "r">>,
       <<"a", "b", "e", "r">>, <<"k", "U+00F6", "n", "n", "e", "n">>,
       <<"h", "a", "b", "e", "n">>, <<"w", "i", "r">>, <<"w", "a", "s">>,
       <<"w", "e", "r", "d", "e", "n">>, <<"s", "e", "i", "n">>,
       <<"e", "i", "n", "e", "n">>, <<"w", "e", "l", "c", "h", "e">>,
       <<"s", "i", "n", "d">>, <<"n", "o", "c", "h">>, <<"w", "i", "e">>,
       <<"e", "i", "n", "e", "m">>, <<"U+00FC", "b", "e", "r">>,
       <<"e", "i", "n", "e", "n">>, <<"s", "o">>, <<"z", "u", "m">>,
       <<"w", "a", "r">>, <<"h", "a", "b", "e", "n">>, <<"n", "u", "r">>,
       <<"o", "d", "e", "r">>, <<"a", "u", "c", "h">>, <<"e", "s">>,
       <<"s", "o", "l", "l">>, <<"w", "e", "r", "d", "e", "n">>,
       <<"b", "e", "i">>, <<"i", "s", "t">>, <<"d", "e", "s">>,
       <<"s", "i", "c", "h">>, <<"e", "i", "n">>,
       <<"d", "i", "e", "s", "e", "m">>, <<"e", "i", "n", "e", "r">>,
       <<"e", "r">>, <<"a", "u", "c", "h">>, <<"a", "n">>,
       <<"w", "e", "r", "d", "e", "n">>, <<"a", "u", "s">>, <<"z", "u">>,
       <<"i", "m">>, <<"s", "i", "e">>, <<"e", "i", "n", "e", "m">>,
       <<"m", "i", "t">>, <<"n", "a", "c", "h">>,
       <<"e", "i", "n", "e", "r">>, <<"d", "e", "r">>, <<"b", "e", "i">> >>]
  >>

\* the loop over commonWords: score > maxMatches, with maxMatches 0 and
\* detectedLang 'en' at the start.  Every score has the same denominator
\* Math.min(words.length, 20), so the scores compare as the match counts;
\* with no word the scores are NaN and never exceed maxMatches.
RECURSIVE BestCommonWords(_, _, _, _)
BestCommonWords(words, k, maxMatches, detectedLang) ==
  IF k > Len(commonWords) THEN detectedLang
  ELSE LET wordList == Range(commonWords[k].wordList)
           matches == Cardinality({i \in 1..Len(words) : words[i] \in wordList})
       IN  IF Len(words) > 0 /\ matches > maxMatches
           THEN BestCommonWords(words, k + 1, matches, commonWords[k].lang)
           ELSE BestCommonWords(words, k + 1, maxMatches, detectedLang)

detectLanguageLocally(text) ==
  LET lowerText == toLowerCase(text)
      totalChars == Cardinality({i \in 1..Len(text) : text[i] \notin WhiteSpace})
      counts == scriptCounts(text)
      \* count / totalChars > 0.3 on a script that has a case in the switch
      Dominant(k) == /\ counts[k].lang # Null
                     /\ 10 * counts[k].count > 3 * totalChars
      Marked(k) == \E i \in 1..Len(text) : text[i] \in languageMarkers[k].pattern
      words == SelectSeq(SplitWords(trim(lowerText)), LAMBDA w : Len(w) > 1)
  IN  IF totalChars = 0 THEN <<"e", "n">>
      ELSE IF \E k \in DOMAIN counts : Dominant(k)
      THEN counts[CHOOSE k \in DOMAIN counts :
                    Dominant(k) /\ \A j \in 1..(k - 1) : ~Dominant(j)].lang
      ELSE IF \E k \in DOMAIN languageMarkers : Marked(k)
      THEN languageMarkers[CHOOSE k \in DOMAIN languageMarkers :
                    Marked(k) /\ \A j \in 1..(k - 1) : ~Marked(j)].lang
      ELSE BestCommonWords(words, 1, 0, <<"e", "n">>)

(***************************************************************************)
(* The remote requests.  A response is what fetch and response.json()      *)
(* deliver when the suspended call resumes:                                *)
(*   kind "error"   fetch rejects (network failure)                        *)
(*   kind "notok"   response.ok is false                                   *)
(*   kind "badjson" response.json() rejects, or a field has the wrong type *)
(*   kind "nodata"  the parsed body lacks the field that is read           *)
(*   kind "ok"      the parsed body has the field, with value data         *)
(***************************************************************************)
\* the completion of a try block that ended in an exception
Threw == <<"throw">>

\* tryGoogleTranslate: data is the list of the data[0][k][0]
tryGoogleTranslate(resp) ==
  LET body == IF resp.kind \in {"error", "badjson"} THEN Threw
              ELSE IF resp.kind \in {"notok", "nodata"} THEN Null
              ELSE cleanTranslatedText(
                     Join(SelectSeq(resp.data, LAMBDA item : item # <<>>), <<>>))
  IN  IF body = Threw THEN Null ELSE body

\* tryMyMemoryTranslate: data is responseData.translatedText
tryMyMemoryTranslate(resp) ==
  LET body == IF resp.kind \in {"error", "badjson"} THEN Threw
              ELSE IF resp.kind \in {"notok", "nodata"}
                      \/ resp.status # 200 \/ resp.data = <<>> THEN Null
              ELSE cleanTranslatedText(resp.data)
  IN  IF body = Threw THEN Null ELSE body

\* tryLibreTranslate: data is translatedText
tryLibreTranslate(resp) ==
  LET body == IF resp.kind \in {"error", "badjson"} THEN Threw
              ELSE IF resp.kind \in {"notok", "nodata"}
                      \/ resp.data = <<>> THEN Null
              ELSE cleanTranslatedText(resp.data)
  IN  IF body = Threw THEN Null ELSE body

\* detectLanguage without its catch block: a rejected fetch or json() leaves it
detectLanguageUncaught(resp, text) ==
  LET trimmedText == SubSeq(trim(text), 1, Min(200, Len(trim(text))))
  IN  IF resp.kind \in {"error", "badjson"} THEN Threw
      ELSE IF resp.kind \in {"notok", "nodata"} \/ resp.data = <<>>
              \/ normalizeLanguageCode(resp.data) = Auto
      THEN detectLanguageLocally(trimmedText)
      ELSE normalizeLanguageCode(resp.data)

\* detectLanguage without the test of line 418: the normalized code of the
\* response is returned whatever it is
detectLanguageUntested(resp, text) ==
  LET trimmedText == SubSeq(trim(text), 1, Min(200, Len(trim(text))))
      body == IF resp.kind \in {"error", "badjson"} THEN Threw
              ELSE IF resp.kind \in {"notok", "nodata"}
                      \/ resp.data = <<>> THEN Null
              ELSE normalizeLanguageCode(resp.data)
  IN  IF body \notin {Threw, Null} THEN body
      ELSE detectLanguageLocally(trimmedText)

\* detectLanguage: data is data[2]
detectLanguage(resp, text) ==
  LET trimmedText == SubSeq(trim(text), 1, Min(200, Len(trim(text))))
      body == IF resp.kind \in {"error", "badjson"} THEN Threw
              ELSE IF resp.kind \in {"notok", "nodata"}
                      \/ resp.data = <<>> THEN Null
              ELSE IF normalizeLanguageCode(resp.data) # Auto
                   THEN normalizeLanguageCode(resp.data)
                   ELSE Null
  IN  IF body \notin {Threw, Null} THEN body
      ELSE detectLanguageLocally(trimmedText)

\* translationMethods with the first two methods exchanged
translationMethodsExchanged == <<"mymemory", "google", "libre">>

\* translationMethods in which the first method is tried again as the last
translationMethodsRepeated == <<"google", "mymemory", "google">>

\* the order of translationMethods in translateChunk
translationMethods == <<"google", "mymemory", "libre">>

\* translateChunk without the call of isValidTranslation: any string that a
\* method returns is returned
translateChunkUnvalidated(m, result, text, fromLang, toLang) ==
  IF result \notin {Threw, Null}
  THEN [returns |-> TRUE, value |-> result, origin |-> translationMethods[m]]
  ELSE IF m < Len(translationMethods)
  THEN [returns |-> FALSE, value |-> Null, origin |-> "none"]
  ELSE [returns |-> TRUE,
        value |-> dictionaryTranslation(text, fromLang, toLang),
        origin |-> "dictionary"]

\* translateChunk that leaves the loop at the first method without a valid
\* result
translateChunkNoFallThrough(m, result, text, fromLang, toLang) ==
  IF result # Threw /\ isValidTranslation(result, text, fromLang, toLang)
  THEN [returns |-> TRUE, value |-> result, origin |-> translationMethods[m]]
  ELSE [returns |-> TRUE,
        value |-> dictionaryTranslation(text, fromLang, toLang),
        origin |-> "dictionary"]

\* one iteration of the loop of translateChunk, after method m completed
\* with result (Threw when the method threw): return the result, go on with
\* the next method, or leave the loop and return the dictionary's answer
translateChunk(m, result, text, fromLang, toLang) ==
  IF result # Threw /\ isValidTranslation(result, text, fromLang, toLang)
  THEN [returns |-> TRUE, value |-> result, origin |-> translationMethods[m]]
  ELSE IF m < Len(translationMethods)
  THEN [returns |-> FALSE, value |-> Null, origin |-> "none"]
  ELSE [returns |-> TRUE,
        value |-> dictionaryTranslation(text, fromLang, toLang),
        origin |-> "dictionary"]

(***************************************************************************)
(* translationCache: a Map in insertion order, as a sequence of entries    *)
(***************************************************************************)
CACHE_LIMIT == 100

\* a key of the trimmed text and the target code only
cacheKeyWithoutSource(trimmedText, fromLang, toLang) ==
  trimmedText \o <<"|">> \o toLang

\* line 27: the trimmed text and the two codes as passed, joined by |
cacheKey(trimmedText, fromLang, toLang) ==
  trimmedText \o <<"|">> \o fromLang \o <<"|">> \o toLang

CacheKeys(cache) == [i \in 1..Len(cache) |-> cache[i].key]

\* Map.prototype.has, get
CacheHas(cache, key) == \E i \in 1..Len(cache) : cache[i].key = key
CacheGet(cache, key) == cache[CHOOSE i \in 1..Len(cache) : cache[i].key = key].value

\* Map.prototype.set: a present key keeps its place, a new key goes last
CacheSet(cache, key, value) ==
  IF CacheHas(cache, key)
  THEN [i \in 1..Len(cache) |->
          IF cache[i].key = key THEN [key |-> key, value |-> value]
          ELSE cache[i]]
  ELSE Append(cache, [key |-> key, value |-> value])

\* a limit that deletes the newest key instead of the oldest
CacheLimitNewest(cache) ==
  IF Len(cache) > CACHE_LIMIT THEN SubSeq(cache, 1, Len(cache) - 1) ELSE cache

\* a limit that deletes one insertion late
CacheLimitLate(cache) ==
  IF Len(cache) > CACHE_LIMIT + 1 THEN Tail(cache) ELSE cache

\* if (size > 100) delete(keys().next().value)
CacheLimit(cache) ==
  IF Len(cache) > CACHE_LIMIT THEN Tail(cache) ELSE cache

(***************************************************************************)
(* State                                                                   *)
(***************************************************************************)
\* number of translateText calls in one behaviour; any number of them may
\* be suspended at the same time
MaxCalls == 2

Calls == 1..MaxCalls

VARIABLES
  translationCache,  \* the static Map of TranslationService
  calls,             \* the activation of translateText of each call
  inserted,          \* history: the keys in the order they entered the Map
  lastReturned,      \* history: the call that returned most recently, or 0
  app,               \* the state of the App component
  evaluation,        \* a call of one of the private static functions
  hook               \* the state of useTranslation and its calls in flight

vars ==
  <<translationCache, calls, inserted, lastReturned, app, evaluation, hook>>

\* a call that has not been made yet
Idle ==
  [pc |-> "idle", text |-> <<>>, fromLang |-> <<>>, toLang |-> <<>>,
   detectedFromLang |-> <<>>, textChunks |-> <<>>, translatedChunks |-> <<>>,
   method |-> 0, result |-> Null,
   \* history of the call
   requests |-> <<>>, origin |-> <<>>, outcome |-> "none", payload |-> Null]

(***************************************************************************)
(* translateText                                                           *)
(***************************************************************************)
\* the call in slot c returns value
Return(st, value, outcome, payload) ==
  [st EXCEPT !.pc = "done", !.result = value, !.outcome = outcome,
             !.payload = payload]

\* lines 52-56: chunks that are blank are pushed as they are
RECURSIVE PushBlankChunks(_)
PushBlankChunks(st) ==
  LET i == Len(st.translatedChunks) + 1
  IN  IF i <= Len(st.textChunks) /\ IsBlank(st.textChunks[i])
      THEN PushBlankChunks(
             [st EXCEPT !.translatedChunks = Append(@, st.textChunks[i]),
                        !.origin = Append(@, "blank")])
      ELSE st

\* the request of method m for the chunk that is next to translate, with
\* the source language that translateChunk was given
IssueRequest(st, m) ==
  [st EXCEPT !.pc = translationMethods[m], !.method = m,
             !.requests = Append(@, [api |-> translationMethods[m],
                                     chunk |-> Len(st.translatedChunks) + 1,
                                     sl |-> st.detectedFromLang])]

\* lines 67-79: all chunks are translated
StoreAndReturn(c, st) ==
  LET result == reconstructText(st.textChunks, st.translatedChunks)
      finalResult == postProcessTranslation(result, st.detectedFromLang,
                        normalizeLanguageCode(st.toLang))
      key == cacheKey(trim(st.text), st.fromLang, st.toLang)
      done == Return(st, restoreFormatting(st.text, finalResult),
                     "translated", finalResult)
  IN  /\ translationCache' =
           CacheLimit(CacheSet(translationCache, key, finalResult))
      /\ inserted' = IF CacheHas(translationCache, key) THEN inserted
                     ELSE Append(inserted, key)
      /\ calls' = [calls EXCEPT ![c] = done]
      /\ lastReturned' = c

\* lines 52-79: the for loop, from the first chunk not yet translated up to
\* the next await or to the return
ContinueLoop(c, st0) ==
  LET st == PushBlankChunks(st0)
  IN  IF Len(st.translatedChunks) < Len(st.textChunks)
      THEN /\ calls' = [calls EXCEPT ![c] = IssueRequest(st, 1)]
           /\ UNCHANGED <<translationCache, inserted, lastReturned>>
      ELSE StoreAndReturn(c, st)

\* return without a change of the cache
ReturnOnly(c, done) ==
  /\ calls' = [calls EXCEPT ![c] = done]
  /\ lastReturned' = c
  /\ UNCHANGED <<translationCache, inserted>>

\* a cache hit that makes the entry the newest of the Map (delete and set)
ReturnCachedRefreshed(c, st) ==
  LET key == cacheKey(trim(st.text), st.fromLang, st.toLang)
      cached == CacheGet(translationCache, key)
      others == SelectSeq(translationCache, LAMBDA e : e.key # key)
  IN  /\ calls' = [calls EXCEPT ![c] =
           Return(st, restoreFormatting(st.text, cached), "hit", cached)]
      /\ lastReturned' = c
      /\ translationCache' = Append(others, [key |-> key, value |-> cached])
      /\ UNCHANGED inserted

\* lines 26-30: the cache holds the key of the call
ReturnCached(c, st) ==
  LET cached == CacheGet(translationCache,
                         cacheKey(trim(st.text), st.fromLang, st.toLang))
  IN  ReturnOnly(c, Return(st, restoreFormatting(st.text, cached),
                           "hit", cached))

\* lines 36-39: source language auto, the call suspends in detectLanguage,
\* whose request has sl auto (line 402)
StartDetection(c, st) ==
  /\ calls' = [calls EXCEPT ![c] =
       [st EXCEPT !.pc = "detect",
                  !.requests = Append(@, [api |-> "detect", chunk |-> 0,
                                          sl |-> Auto])]]
  /\ UNCHANGED <<translationCache, inserted, lastReturned>>

\* lines 47-58: the text is split and the loop runs up to the first await
StartTranslation(c, st, detectedFromLang) ==
  ContinueLoop(c, [st EXCEPT !.detectedFromLang = detectedFromLang,
                             !.textChunks = intelligentTextSplit(trim(st.text))])

\* line 15 without the comparison of the two codes
SameLanguageUnchecked(fromLang, toLang) == FALSE

\* line 15
SameLanguage(fromLang, toLang) == fromLang = toLang /\ fromLang # Auto

\* translateText(text, fromLang, toLang) is called: lines 13-39 and, with
\* a source language other than auto, 47-58, up to the first await
translateText(c, text, fromLang, toLang) ==
  LET st == [Idle EXCEPT !.text = text, !.fromLang = fromLang,
                         !.toLang = toLang]
      trimmedText == trim(text)
  IN  /\ calls[c].pc = "idle"
      /\ \A d \in 1..(c - 1) : calls[d].pc # "idle"
      /\ UNCHANGED <<app, evaluation>>
      /\ IF SameLanguage(fromLang, toLang)
         THEN ReturnOnly(c, Return(st, text, "same", text))
         ELSE IF trimmedText = <<>>
         THEN ReturnOnly(c, Return(st, text, "blank", text))
         ELSE IF CacheHas(translationCache,
                          cacheKey(trimmedText, fromLang, toLang))
         THEN ReturnCached(c, st)
         ELSE IF normalizeLanguageCode(fromLang) = Auto
         THEN StartDetection(c, st)
         ELSE StartTranslation(c, st, normalizeLanguageCode(fromLang))

\* DetectionCompleted without the comparison of line 42: the text is
\* translated whatever the detector found
DetectionCompletedUncompared(c, resp) ==
  LET st == calls[c]
      detectedFromLang == detectLanguage(resp, trim(st.text))
  IN  /\ st.pc = "detect"
      /\ UNCHANGED <<app, evaluation>>
      /\ IF detectedFromLang = Threw
         THEN /\ calls' = [calls EXCEPT ![c] = [st EXCEPT !.pc = "raised"]]
              /\ UNCHANGED <<translationCache, inserted, lastReturned>>
         ELSE StartTranslation(c, st, detectedFromLang)

\* detectLanguage completes with resp: lines 39-45 and 47-58
DetectionCompleted(c, resp) ==
  LET st == calls[c]
      detectedFromLang == detectLanguage(resp, trim(st.text))
  IN  /\ st.pc = "detect"
      /\ UNCHANGED <<app, evaluation>>
      /\ IF detectedFromLang = Threw
         THEN /\ calls' = [calls EXCEPT ![c] = [st EXCEPT !.pc = "raised"]]
              /\ UNCHANGED <<translationCache, inserted, lastReturned>>
         ELSE IF detectedFromLang = normalizeLanguageCode(st.toLang)
         THEN ReturnOnly(c, Return([st EXCEPT !.detectedFromLang = detectedFromLang],
                                   st.text, "detected-same", st.text))
         ELSE StartTranslation(c, st, detectedFromLang)

\* MethodCompleted with a loop that starts over with the first method when
\* the last one gave no valid result, in place of the return of line 157
\* (the history keeps the requests of the last round only)
MethodCompletedRetrying(c, result) ==
  LET st == calls[c]
      i == Len(st.translatedChunks) + 1
      chunk == trim(st.textChunks[i])
      valid == result # Threw
                 /\ isValidTranslation(result, chunk, st.detectedFromLang,
                                       normalizeLanguageCode(st.toLang))
      again == [st EXCEPT !.requests =
                  SelectSeq(@, LAMBDA r : r.chunk # i)]
  IN  /\ UNCHANGED <<app, evaluation>>
      /\ IF valid
         THEN ContinueLoop(c,
                [st EXCEPT !.translatedChunks = Append(@, result),
                           !.origin = Append(@, translationMethods[st.method])])
         ELSE /\ calls' = [calls EXCEPT ![c] =
                   IF st.method < Len(translationMethods)
                   THEN IssueRequest(st, st.method + 1)
                   ELSE IssueRequest(again, 1)]
              /\ UNCHANGED <<translationCache, inserted, lastReturned>>

\* the method awaited in translateChunk completes with result: lines
\* 144-157 and the loop of translateText
MethodCompleted(c, result) ==
  LET st == calls[c]
      chunk == trim(st.textChunks[Len(st.translatedChunks) + 1])
      step == translateChunk(st.method, result, chunk, st.detectedFromLang,
                             normalizeLanguageCode(st.toLang))
  IN  /\ UNCHANGED <<app, evaluation>>
      /\ IF step.returns
         THEN ContinueLoop(c,
                [st EXCEPT !.translatedChunks = Append(@, step.value),
                           !.origin = Append(@, step.origin)])
         ELSE /\ calls' = [calls EXCEPT ![c] = IssueRequest(st, st.method + 1)]
              /\ UNCHANGED <<translationCache, inserted, lastReturned>>

(***************************************************************************)
(* App (src/unnamed/part_002): the language selection and the text         *)
(* translation handler.  An event handler runs to completion with the      *)
(* state of the last render, and React renders between two events.         *)
(***************************************************************************)
\* data/languages: the codes of languages, in order
languages ==
  << <<"a", "u", "t", "o">>, <<"r", "u">>, <<"e", "n">>, <<"e", "s">>, <<"f", "r">>, <<"d", "e">>, <<"i", "t">>, <<"p", "t">>, <<"z", "h">>, <<"j", "a">>, <<"k", "o">>,
     <<"a", "r">>, <<"h", "i">>, <<"t", "r">>, <<"n", "l">>, <<"s", "v">>, <<"d", "a">>, <<"n", "o">>, <<"f", "i">>, <<"p", "l">> >>

\* languages.filter(lang => lang.code !== 'auto')
targetLanguages == SelectSeq(languages, LAMBDA code : code # <<"a", "u", "t", "o">>)

\* the useState initial values; loading is the state of useTranslation and
\* passed is history: the toLang argument of the last translateText call
AppInitial ==
  [sourceText |-> <<>>, translatedText |-> <<>>,
   fromLanguage |-> <<"a", "u", "t", "o">>, toLanguage |-> <<"e", "n">>,
   loading |-> FALSE, passed |-> <<>>]

\* no private static function is being evaluated
NoEvaluation == [fn |-> "none", args |-> <<>>, returned |-> FALSE, value |-> Null]

\* what the user types and what a translation returns
SourceTexts == { <<"h", "i">> }
TranslationResults == { <<"y", "o">> }

\* the source LanguageSelect changes
setFromLanguage(code) ==
  /\ app' = [app EXCEPT !.fromLanguage = code]
  /\ UNCHANGED <<translationCache, calls, inserted, lastReturned, evaluation,
               hook>>

\* the target LanguageSelect changes
setToLanguage(code) ==
  /\ app' = [app EXCEPT !.toLanguage = code]
  /\ UNCHANGED <<translationCache, calls, inserted, lastReturned, evaluation,
               hook>>

\* the source TextArea changes
setSourceText(text) ==
  /\ app' = [app EXCEPT !.sourceText = text]
  /\ UNCHANGED <<translationCache, calls, inserted, lastReturned, evaluation,
               hook>>

\* the swap handler behind a button that is never disabled
handleSwapLanguagesAlways ==
  /\ app' = [app EXCEPT !.fromLanguage = app.toLanguage,
                        !.toLanguage = app.fromLanguage,
                        !.sourceText = app.translatedText,
                        !.translatedText = app.sourceText]
  /\ UNCHANGED <<translationCache, calls, inserted, lastReturned, evaluation,
               hook>>

\* the swap button, disabled while fromLanguage is auto
handleSwapLanguages ==
  /\ app.fromLanguage # <<"a", "u", "t", "o">>
  /\ app' = [app EXCEPT !.fromLanguage = app.toLanguage,
                        !.toLanguage = app.fromLanguage,
                        !.sourceText = app.translatedText,
                        !.translatedText = app.sourceText]
  /\ UNCHANGED <<translationCache, calls, inserted, lastReturned, evaluation,
               hook>>

\* the translate button, disabled while loading or without a source text:
\* the handler up to its await
handleTextTranslate ==
  /\ ~app.loading
  /\ ~IsBlank(app.sourceText)
  /\ app' = [app EXCEPT !.loading = TRUE, !.passed = app.toLanguage]
  /\ UNCHANGED <<translationCache, calls, inserted, lastReturned, evaluation,
               hook>>

\* the awaited translateText of the hook returns result
TextTranslateCompleted(result) ==
  /\ app.loading
  /\ app' = [app EXCEPT !.loading = FALSE, !.translatedText = result]
  /\ UNCHANGED <<translationCache, calls, inserted, lastReturned, evaluation,
               hook>>

\* handleClearAll
handleClearAll ==
  /\ app' = [app EXCEPT !.sourceText = <<>>, !.translatedText = <<>>]
  /\ UNCHANGED <<translationCache, calls, inserted, lastReturned, evaluation,
               hook>>

(***************************************************************************)
(* useTranslation (src/src/hooks/useTranslation.tsx): the history, the     *)
(* loading flag and the calls of translateText and translateImage that     *)
(* are in flight.  A state update of React is applied in the step that     *)
(* makes it; setHistory is given a function of the latest history.         *)
(***************************************************************************)
\* a call of the hook that has not been made yet
HookIdle ==
  [pc |-> "idle", kind |-> "none", text |-> <<>>, fromLang |-> <<>>,
   toLang |-> <<>>, detectedFromLang |-> <<>>, slot |-> 0]

\* lines 15-16: useState([]), useState(false)
HookInitial ==
  [history |-> <<>>, loading |-> FALSE, calls |-> [h \in Calls |-> HookIdle]]

\* the hook's call h awaits TranslationService.translateText(text,
\* detectedFromLang, toLang), which gets the first activation that is free:
\* lines 33 and 75
AwaitTranslation(h, hc, detectedFromLang, loading) ==
  LET slot == CHOOSE c \in Calls :
                calls[c].pc = "idle" /\ \A d \in 1..(c - 1) : calls[d].pc # "idle"
  IN  /\ hook' = [hook EXCEPT !.loading = loading,
                              !.calls[h] =
                                [hc EXCEPT !.pc = "translate",
                                           !.detectedFromLang = detectedFromLang,
                                           !.slot = slot]]
      /\ translateText(slot, hc.text, detectedFromLang, hc.toLang)

\* the hook's call h awaits TranslationService.detectLanguage: lines 29, 71
AwaitDetection(h, hc, loading) ==
  /\ hook' = [hook EXCEPT !.loading = loading,
                          !.calls[h] = [hc EXCEPT !.pc = "detect"]]
  /\ UNCHANGED <<translationCache, calls, inserted, lastReturned, app,
                 evaluation>>

\* the finally block after an exception: lines 48-50, 90-92
HookFailed(h) ==
  /\ hook' = [hook EXCEPT !.loading = FALSE, !.calls[h].pc = "failed"]
  /\ UNCHANGED <<translationCache, calls, inserted, lastReturned, app,
                 evaluation>>

\* translateText of the hook is called: lines 18-33, up to the first await
hookTranslateText(h, text, fromLang, toLang) ==
  LET hc == [HookIdle EXCEPT !.kind = "text", !.text = text,
                             !.fromLang = fromLang, !.toLang = toLang]
  IN  /\ hook.calls[h].pc = "idle"
      /\ \A g \in 1..(h - 1) : hook.calls[g].pc # "idle"
      /\ IF fromLang = Auto
         THEN AwaitDetection(h, hc, TRUE)
         ELSE AwaitTranslation(h, hc, fromLang, TRUE)

\* translateImage of the hook is called: lines 53-62, up to the await of
\* OCRService.extractTextFromImage
hookTranslateImage(h, fromLang, toLang) ==
  /\ hook.calls[h].pc = "idle"
  /\ \A g \in 1..(h - 1) : hook.calls[g].pc # "idle"
  /\ hook' = [hook EXCEPT !.loading = TRUE,
                          !.calls[h] =
                            [HookIdle EXCEPT !.pc = "ocr", !.kind = "image",
                                             !.fromLang = fromLang,
                                             !.toLang = toLang]]
  /\ UNCHANGED <<translationCache, calls, inserted, lastReturned, app,
                 evaluation>>

\* extractTextFromImage completes, with a text or with an exception: lines
\* 62-75
OcrCompleted(h, extractedText) ==
  LET hc == [hook.calls[h] EXCEPT !.text = extractedText]
  IN  /\ hook.calls[h].pc = "ocr"
      /\ IF extractedText = Threw \/ trim(extractedText) = <<>>
         THEN HookFailed(h)
         ELSE IF hc.fromLang = Auto
         THEN AwaitDetection(h, hc, hook.loading)
         ELSE AwaitTranslation(h, hc, hc.fromLang, hook.loading)

\* detectLanguage, awaited by the hook, completes: lines 29-33, 71-75
HookDetectionCompleted(h, resp) ==
  /\ hook.calls[h].pc = "detect"
  /\ AwaitTranslation(h, hook.calls[h],
                      detectLanguage(resp, hook.calls[h].text), hook.loading)

\* TranslationService.translateText has returned with 10 items kept in place
\* of 9
HookTranslationCompletedKeeping10(h) ==
  LET hc == hook.calls[h]
      item == [sourceText |-> IF hc.kind = "image" THEN <<"[", "I", "M", "A", "G", "E", "]", " ">> \o hc.text
                              ELSE hc.text,
               translatedText |-> calls[hc.slot].result,
               fromLanguage |-> hc.detectedFromLang,
               toLanguage |-> hc.toLang]
  IN  /\ hc.pc = "translate"
      /\ calls[hc.slot].pc \in {"done", "raised"}
      /\ IF calls[hc.slot].pc = "raised"
         THEN HookFailed(h)
         ELSE /\ hook' = [hook EXCEPT
                   !.history = <<item>> \o SubSeq(@, 1, Min(10, Len(@))),
                   !.loading = FALSE,
                   !.calls[h].pc = "done"]
              /\ UNCHANGED <<translationCache, calls, inserted, lastReturned,
                             app, evaluation>>

\* TranslationService.translateText, awaited by the hook, has returned or
\* thrown; item is the history item without id and timestamp, which are read
\* from the clock: lines 33-50, 75-92
HookTranslationCompleted(h) ==
  LET hc == hook.calls[h]
      item == [sourceText |-> IF hc.kind = "image" THEN <<"[", "I", "M", "A", "G", "E", "]", " ">> \o hc.text
                              ELSE hc.text,
               translatedText |-> calls[hc.slot].result,
               fromLanguage |-> hc.detectedFromLang,
               toLanguage |-> hc.toLang]
  IN  /\ hc.pc = "translate"
      /\ calls[hc.slot].pc \in {"done", "raised"}
      /\ IF calls[hc.slot].pc = "raised"
         THEN HookFailed(h)
         ELSE /\ hook' = [hook EXCEPT
                   !.history = <<item>> \o SubSeq(@, 1, Min(9, Len(@))),
                   !.loading = FALSE,
                   !.calls[h].pc = "done"]
              /\ UNCHANGED <<translationCache, calls, inserted, lastReturned,
                             app, evaluation>>

\* lines 95-97
clearHistory ==
  /\ hook' = [hook EXCEPT !.history = <<>>]
  /\ UNCHANGED <<translationCache, calls, inserted, lastReturned, app,
                 evaluation>>

\* tryGoogleTranslate, tryMyMemoryTranslate, tryLibreTranslate complete
GoogleCompleted(c, resp) ==
  /\ calls[c].pc = "google"
  /\ MethodCompleted(c, tryGoogleTranslate(resp))

MyMemoryCompleted(c, resp) ==
  /\ calls[c].pc = "mymemory"
  /\ MethodCompleted(c, tryMyMemoryTranslate(resp))

LibreCompleted(c, resp) ==
  /\ calls[c].pc = "libre"
  /\ MethodCompleted(c, tryLibreTranslate(resp))

(***************************************************************************)
(* The environment: the requests of the callers and the answers of the     *)
(* remote services                                                         *)
(***************************************************************************)
Texts == { <<" ", "N", "o", "\n">>, <<"h", "i", " ", "t", "h", "e", "r", "e", " ", " ">>, <<" ", "\n">> }
FromLanguages == { <<"e", "n">>, <<"d", "e">>, <<"a", "u", "t", "o">>, <<"A", "U", "T", "O">> }
ToLanguages == { <<"d", "e">> }

\* what a provider may answer for a chunk: the chunk itself or one of a
\* few fixed texts
Candidates(chunk) ==
  { chunk, <<"n", "e", "i", "n">>, <<"N", "e", "i", "n", " ", ",", " ", "d", "a", "n", "k", "e">>, <<" ", " ">>, <<"E", "R", "R", "O", "R", ":", " ", "l", "i", "m", "i", "t">>, <<"l", "a", " ", "l", "a", " ", "l", "a", " ", "l", "a">> }

Failures(noData) ==
  { [kind |-> k, status |-> 0, data |-> noData] :
      k \in {"error", "notok", "badjson", "nodata"} }

GoogleResponses(chunk) ==
  Failures(<<>>)
    \cup { [kind |-> "ok", status |-> 200, data |-> d] :
             d \in {<<>>, <<<<"N", "e", "i", "n">>, <<>>, <<" ", ",", " ", "d", "a", "n", "k", "e">>>>}
                     \cup { <<t>> : t \in Candidates(chunk) } }

MyMemoryResponses(chunk) ==
  Failures(<<>>)
    \cup { [kind |-> "ok", status |-> 403, data |-> <<"n", "e", "i", "n">>] }
    \cup { [kind |-> "ok", status |-> 200, data |-> d] :
             d \in {<<>>} \cup Candidates(chunk) }

LibreResponses(chunk) ==
  Failures(<<>>)
    \cup { [kind |-> "ok", status |-> 200, data |-> d] :
             d \in {<<>>} \cup Candidates(chunk) }

DetectResponses ==
  Failures(<<>>)
    \cup { [kind |-> "ok", status |-> 200, data |-> d] :
             d \in {<<>>, <<"e", "n">>, <<"D", "E">>, <<"a", "u", "t", "o">>, <<"A", "u", "t", "o">>} }

\* the chunk that the suspended call in slot c is translating
CurrentChunk(c) ==
  trim(calls[c].textChunks[Len(calls[c].translatedChunks) + 1])

Init ==
  /\ translationCache = <<>>
  /\ calls = [c \in Calls |-> Idle]
  /\ inserted = <<>>
  /\ lastReturned = 0
  /\ app = AppInitial
  /\ evaluation = NoEvaluation
  /\ hook = HookInitial

Next ==
  \/ /\ \E c \in Calls, text \in Texts, fromLang \in FromLanguages,
           toLang \in ToLanguages : translateText(c, text, fromLang, toLang)
     /\ UNCHANGED hook
  \/ /\ \E c \in Calls, resp \in DetectResponses : DetectionCompleted(c, resp)
     /\ UNCHANGED hook
  \/ \E c \in Calls :
       /\ calls[c].pc = "google"
       /\ \E resp \in GoogleResponses(CurrentChunk(c)) : GoogleCompleted(c, resp)
       /\ UNCHANGED hook
  \/ \E c \in Calls :
       /\ calls[c].pc = "mymemory"
       /\ \E resp \in MyMemoryResponses(CurrentChunk(c)) : MyMemoryCompleted(c, resp)
       /\ UNCHANGED hook
  \/ \E c \in Calls :
       /\ calls[c].pc = "libre"
       /\ \E resp \in LibreResponses(CurrentChunk(c)) : LibreCompleted(c, resp)
       /\ UNCHANGED hook

Spec == Init /\ [][Next]_vars

\* decimal numeral of n, 0 <= n <= 999, without leading zeros
DigitChars == <<"0", "1", "2", "3", "4", "5", "6", "7", "8", "9">>
NumberText(n) ==
  (IF n >= 100 THEN <<DigitChars[(n \div 100) + 1]>> ELSE <<>>)
    \o (IF n >= 10 THEN <<DigitChars[((n \div 10) % 10) + 1]>> ELSE <<>>)
    \o <<DigitChars[(n % 10) + 1]>>

\* the cache after n translations from en to de: of the text No, answered
\* Nein, and then of the numbers 2..n, each answered with the same number
\* (the validator accepts the echo of a number)
Prefilled(n) ==
  [i \in 1..n |->
     IF i = 1 THEN [key |-> cacheKey(<<"N", "o">>, <<"e", "n">>, <<"d", "e">>), value |-> <<"N", "e", "i", "n">>]
     ELSE [key |-> cacheKey(NumberText(i), <<"e", "n">>, <<"d", "e">>),
           value |-> NumberText(i)]]

\* a session in which the cache is one entry short of its limit, or at it
InitFull ==
  /\ translationCache \in {Prefilled(CACHE_LIMIT - 1), Prefilled(CACHE_LIMIT)}
  /\ calls = [c \in Calls |-> Idle]
  /\ inserted = CacheKeys(translationCache)
  /\ lastReturned = 0
  /\ app = AppInitial
  /\ evaluation = NoEvaluation
  /\ hook = HookInitial

SpecFull == InitFull /\ [][Next]_vars

(***************************************************************************)
(* The App alone: the events of the user and the completion of the         *)
(* translation the handler awaits                                          *)
(***************************************************************************)
InitApp ==
  /\ translationCache = <<>>
  /\ calls = [c \in Calls |-> Idle]
  /\ inserted = <<>>
  /\ lastReturned = 0
  /\ app = AppInitial
  /\ evaluation = NoEvaluation
  /\ hook = HookInitial

NextApp ==
  \/ \E i \in DOMAIN languages : setFromLanguage(languages[i])
  \/ \E i \in DOMAIN targetLanguages : setToLanguage(targetLanguages[i])
  \/ \E text \in SourceTexts : setSourceText(text)
  \/ handleSwapLanguages
  \/ handleTextTranslate
  \/ \E result \in TranslationResults : TextTranslateCompleted(result)
  \/ handleClearAll

SpecApp == InitApp /\ [][NextApp]_vars

(***************************************************************************)
(* The private static functions alone: one call of isValidTranslation,     *)
(* dictionaryTranslation, intelligentTextSplit or splitIntoSentences with  *)
(* arguments of the kind that translateChunk and translateText pass        *)
(***************************************************************************)
\* <<translation, original>>: what a method returned for the chunk original
ValidatorInputs ==
  { <<<<"c", "a", "t">>, <<"c", "a", "t">>>>, <<<<" ", "C", "A", "T", " ">>, <<"c", "a", "t">>>>, <<<<"K", "a", "t", "z", "e">>, <<"c", "a", "t">>>>,
    <<<<"t", "r", "a", "n", "s", "l", "a", "t", "e", " ", "t", "h", "i", "s", " ", "s", "e", "n", "t", "e", "n", "c", "e">>, <<"t", "r", "a", "n", "s", "l", "a", "t", "e", " ", "t", "h", "i", "s", " ", "s", "e", "n", "t", "e", "n", "c", "e">>>>,
    <<<<"T", "r", "a", "n", "s", "l", "a", "t", "e", " ", "T", "h", "i", "s", " ", "S", "e", "n", "t", "e", "n", "c", "e">>, <<"t", "r", "a", "n", "s", "l", "a", "t", "e", " ", "t", "h", "i", "s", " ", "s", "e", "n", "t", "e", "n", "c", "e">>>>,
    <<<<"u", "e", "b", "e", "r", "s", "e", "t", "z", "e", " ", "d", "i", "e", "s", "e", "n", " ", "S", "a", "t", "z">>, <<"t", "r", "a", "n", "s", "l", "a", "t", "e", " ", "t", "h", "i", "s", " ", "s", "e", "n", "t", "e", "n", "c", "e">>>>,
    <<<<"p", "a", "r", "i", "s">>, <<"P", "a", "r", "i", "s">>>>, <<<<"P", "a", "r", "i", "s">>, <<"P", "a", "r", "i", "s">>>>, <<<<"P", "A", "R", "I", "S">>, <<"P", "A", "R", "I", "S">>>>,
    <<<<"N", "e", "w", " ", "Y", "o", "r", "k">>, <<"N", "e", "w", " ", "Y", "o", "r", "k">>>>, <<<<"M", "c", "D", "o", "n", "a", "l", "d">>, <<"M", "c", "D", "o", "n", "a", "l", "d">>>>,
    <<<<"A">>, <<"A">>>>, <<<<"w", "o", "r", "d">>, <<"w", "o", "r", "d">>>>, <<<<"W", "o", "r", "d", ".">>, <<"W", "o", "r", "d", ".">>>>,
    <<<<"2", "0", "2", "4">>, <<"2", "0", "2", "4">>>>, <<<<"1", "2", "a", "4">>, <<"1", "2", "a", "4">>>>, <<<<"1", "2", " ", "4">>, <<"1", "2", " ", "4">>>>,
    <<<<"U+041C", "U+043E", "U+0441", "U+043A", "U+0432", "U+0430">>, <<"U+041C", "U+043E", "U+0441", "U+043A", "U+0432", "U+0430">>>>, <<<<"U+0434", "U+0430">>, <<"U+0434", "U+0430">>>>,
    <<<<"l", "a", " ", "l", "a", " ", "l", "a", " ", "l", "a">>, <<"s", "i", "n", "g", " ", "i", "t">>>>, <<<<"l", "a", " ", "l", "a", " ", "l", "a">>, <<"s", "i", "n", "g", " ", "i", "t">>>>,
    <<<<"L", "a", " ", "l", "a", " ", "L", "A", " ", "l", "a">>, <<"s", "i", "n", "g", " ", "i", "t">>>>, <<<<"l", "a", "\t", "l", "a", " ", "\n", " ", "l", "a", " ", " ", "l", "a">>, <<"s", "i", "n", "g", " ", "i", "t">>>>,
    <<<<"a", " ", "b", " ", "c", " ", "a">>, <<"s", "i", "n", "g", " ", "i", "t">>>>, <<<<"a", " ", "b", " ", "a", " ", "b", " ", "a">>, <<"s", "i", "n", "g", " ", "i", "t">>>>,
    <<<<"a", " ", "b", " ", "c", " ", "d", " ", "e", " ", "f", " ", "g", " ", "a", " ", "b", " ", "c">>, <<"s", "i", "n", "g", " ", "i", "t">>>>,
    <<<<"a", " ", "b", " ", "c", " ", "d", " ", "e", " ", "f", " ", "a", " ", "b", " ", "c", " ", "d">>, <<"s", "i", "n", "g", " ", "i", "t">>>>,
    <<<<"a", " ", "a", " ", "a">>, <<"s", "i", "n", "g", " ", "i", "t">>>>, <<<<"a", " ", "a">>, <<"s", "i", "n", "g", " ", "i", "t">>>>, <<<<"a">>, <<"s", "i", "n", "g", " ", "i", "t">>>>,
    <<<<"a", ",", " ", " ", " ", "a", ",", " ", "a", ",", " ", "a">>, <<"s", "i", "n", "g", " ", "i", "t">>>>,
    <<<<"E", "R", "R", "O", "R", ":", " ", "l", "i", "m", "i", "t">>, <<"s", "i", "n", "g", " ", "i", "t">>>>, <<<<"e", "r", "r", "o", "r", ":", " ", "l", "a", " ", "l", "a", " ", "l", "a">>, <<"s", "i", "n", "g", " ", "i", "t">>>>,
    <<<<"M", "Y", "M", "E", "M", "O", "R", "Y", " ", "W", "A", "R", "N", "I", "N", "G", ":", " ", "L", "A">>, <<"s", "i", "n", "g", " ", "i", "t">>>>,
    <<<<" ", " ">>, <<"s", "i", "n", "g", " ", "i", "t">>>>, <<<<>>, <<"s", "i", "n", "g", " ", "i", "t">>>>, <<Null, <<"s", "i", "n", "g", " ", "i", "t">>>> }

\* <<text, toLang>>: a chunk without surrounding white space and the
\* normalized target language
DictionaryInputs ==
  { <<"h", "e", "l", "l", "o">>, <<"H", "e", "l", "l", "o">>, <<"H", "E", "L", "L", "O">>, <<"h", "E", "l", "l", "o">>, <<"n", "o">>, <<"N", "o">>, <<"t", "h", "a", "n", "k", " ", "y", "o", "u">>,
    <<"T", "h", "a", "n", "k", " ", "Y", "o", "u">>, <<"G", "o", "o", "d", "b", "y", "e">>, <<"y", "e", "s">>, <<"p", "l", "e", "a", "s", "e">>, <<"U+043F", "U+0440", "U+0438", "U+0432", "U+0435", "U+0442">>, <<"U+041F", "U+0440", "U+0438", "U+0432", "U+0435", "U+0442">>,
    <<"U+041D", "U+0435", "U+0442">>, <<"h", "e", "l", "l", "o", " ", "w", "o", "r", "l", "d">>, <<"H", "e", "l", "l", "o", ".">>, <<"h", "i", " ", "t", "h", "e", "r", "e">>, <<"4", "2">>, <<"?">> }
    \X { <<"d", "e">>, <<"f", "r">>, <<"e", "s">>, <<"e", "n">>, <<"r", "u">>, <<"z", "h">>, <<"i", "t">> }

\* n copies of s
Repeat(s, n) == [i \in 1..(n * Len(s)) |-> s[((i - 1) % Len(s)) + 1]]

\* paragraphs: the sentences of the examples, alone and inside a paragraph
\* of more than MAX_CHUNK_SIZE characters, as intelligentTextSplit passes
SentenceInputs ==
  { <<"D", "r", ".", " ", "S", "m", "i", "t", "h", " ", "w", "e", "n", "t", " ", "h", "o", "m", "e", ".", " ", "H", "e", " ", "w", "a", "s", " ", "t", "i", "r", "e", "d", ".">>,
    <<"H", "e", " ", "l", "i", "v", "e", "s", " ", "i", "n", " ", "t", "h", "e", " ", "U", ".", "S", ".", " ", "A", "r", "m", "y", " ", "b", "a", "s", "e", "s", " ", "a", "r", "e", " ", "t", "h", "e", "r", "e", ".">>,
    <<"W", "e", " ", "s", "e", "l", "l", " ", "i", "t", "e", "m", "s", ".", " ", "T", "h", "e", "n", " ", "w", "e", " ", "r", "e", "s", "t", ".">>,
    <<"S", "e", "e", " ", "e", ".", "g", ".", " ", "H", "a", "m", "m", "e", "r", "s", " ", "a", "n", "d", " ", "n", "a", "i", "l", "s", ".", " ", "D", "o", "n", "e", "!">>,
    <<"M", "r", ".", " ", "A", " ", "m", "e", "t", " ", "M", "r", "s", ".", " ", "B", " ", "a", "t", " ", "5", " ", "p", ".", "m", ".", " ", "T", "h", "e", "n", " ", "t", "h", "e", "y", " ", "l", "e", "f", "t">>,
    <<"O", "n", "e", ".", " ", "t", "w", "o", "?", " ", "T", "h", "r", "e", "e", "!", " ", " ", "F", "o", "u", "r">>,
    <<"N", "o", " ", "t", "e", "r", "m", "i", "n", "a", "t", "o", "r">>,
    <<"D", "r", ".", " ">> \o Repeat(<<"x">>, 300) \o <<" ", "w", "e", "n", "t", " ", "h", "o", "m", "e", ".", " ", "H", "e", " ">> \o Repeat(<<"x">>, 200)
      \o <<" ", "w", "a", "s", " ", "t", "i", "r", "e", "d", ".">>,
    <<"H", "e", " ", "l", "i", "v", "e", "s", " ", "i", "n", " ", "t", "h", "e", " ", "U", ".", "S", ".", " ", "A", "r", "m", "y", " ">> \o Repeat(<<"x">>, 480) \o <<" ", "b", "a", "s", "e", "s", ".", " ", "E", "n", "d">>,
    Repeat(<<"x">>, 490) \o <<" ", "i", "t", "e", "m", "s", ".", " ", "T", "h", "e", "n", " ">> \o Repeat(<<"x">>, 20),
    Repeat(<<"A", "a", "a", "a", " ", "b", "b", "b", "b", ".", " ">>, 50) \o <<"E", "n", "d", ".">> }

\* trimmed texts: at, under and over MAX_CHUNK_SIZE characters, of one and
\* of several paragraphs
SegmenterInputs ==
  SentenceInputs
    \cup { <<"H", "e", "l", "l", "o", ".", "\n", "\n", "W", "o", "r", "l", "d", ".">>, <<"x">>,
           Repeat(<<"x">>, 500), Repeat(<<"x">>, 501), Repeat(<<"!">>, 501),
           Repeat(<<"x">>, 300) \o <<"\n", "\n">> \o Repeat(<<"y">>, 300),
           Repeat(<<"x">>, 300) \o <<"\n", " ", "\n">> \o Repeat(<<"y">>, 300),
           Repeat(<<"x">>, 300) \o <<"\n", "\n", "\n">> \o Repeat(<<"y">>, 300),
           Repeat(<<"x">>, 501) \o <<".", " ", "B", "b", " ", "c", "c", ".", " ", "D", "d", ".">>,
           Repeat(<<"x">>, 250) \o <<".", " ", "B">> \o Repeat(<<"y">>, 250) \o <<"!", " ", "C", "c">>,
           Repeat(<<"x">>, 501) \o <<"\n", "\n">> \o <<"B", "b", " ", "c", "c", ".", " ", "D", "d", ".">>,
           Repeat(<<"A", "!", " ">>, 200) \o <<"B">>,
           Repeat(<<"x">>, 400) \o <<".", " ">> \o Repeat(<<"Y">>, 400) \o <<".", " ">>
             \o Repeat(<<"Z">>, 90) \o <<"?">> }

\* texts that detectLanguage hands to detectLanguageLocally (line 428): one
\* script, two scripts, a share of 3 in 10 and of 4 in 10, kana inside and
\* outside the class of line 442, marker letters, stop words
DetectorInputs ==
  { <<"U+043F", "U+0440", "U+0438", "U+0432", "U+0435", "U+0442", " ", "U+043C", "U+0438", "U+0440">>, <<"U+041F", "U+0440", "U+0438", "U+0432", "U+0435", "U+0442">>, <<"h", "e", "l", "l", "o", " ", "U+043F", "U+0440", "U+0438", "U+0432", "U+0435", "U+0442">>, <<"U+043F", "U+0440", "U+0438", "a", "b", "c", "d", "e", "f", "g">>, <<"U+043F", "U+0440", "U+0438", "U+0432", "a", "b", "c", "d", "e", "f">>,
    <<"U+4F60", "U+597D", "U+4E16", "U+754C", " ", "h", "i">>, <<"U+4F60", "U+597D", " ", "h", "e", "l", "l", "o">>, <<"U+043F", "U+0440", "U+0438", "U+0432", "U+0435", "U+0442", "U+4F60", "U+597D", "U+4E16", "U+754C">>, <<"U+4F60", "U+597D", "U+4E16", "U+754C", "U+306A", "U+306A", "U+306A", "U+306A">>,
    <<"U+3072", "U+3089", "U+304C", "U+306A">>, <<"U+30AB", "U+30BF", "U+30AB", "U+30CA">>, <<"U+3053", "U+3093", "U+306B", "U+3061", "U+306F">>, <<"U+3042", "U+308A", "U+304C", "U+3068", "U+3046">>, <<"U+30B3", "U+30F3", "U+30D4", "U+30E5", "U+30FC", "U+30BF">>,
    <<"U+306A", "U+306A", " ", "h", "e", "l", "l", "o">>, <<"U+C548", "U+B155", " ", "U+C138", "U+ACC4">>, <<"U+C548", "U+B155", "h", "e", "l", "l", "o">>, <<"U+306A", "U+306A", "U+C548", "U+B155", "U+C138">>, <<"U+0645", "U+0631", "U+062D", "U+0628", "U+0627">>, <<"U+0645", "U+0631", "U+062D", "U+0628", "U+0627", " ", "h", "i">>,
    <<"U+C548", "U+B155", "U+0645", "U+0631", "U+062D", "U+0628", "U+0627">>, <<"g", "r", "U+00F6", "U+00DF", "e">>, <<"t", "h", "e", " ", "c", "a", "t", " ", "a", "n", "d", " ", "t", "h", "e", " ", "d", "o", "g">>, <<"d", "e", "r", " ", "H", "u", "n", "d", " ", "u", "n", "d", " ", "d", "i", "e", " ", "K", "a", "t", "z", "e">>,
    <<"1", "2", "3", "4", "5">>, <<"x">> }

PendingEvaluations ==
  { [fn |-> "detectLanguageLocally", args |-> <<a>>,
     returned |-> FALSE, value |-> Null] : a \in DetectorInputs }
    \cup
  { [fn |-> "isValidTranslation", args |-> <<a[1], a[2], <<"e", "n">>, <<"d", "e">>>>,
     returned |-> FALSE, value |-> Null] : a \in ValidatorInputs }
    \cup
  { [fn |-> "dictionaryTranslation", args |-> <<a[1], <<"e", "n">>, a[2]>>,
     returned |-> FALSE, value |-> Null] : a \in DictionaryInputs }
    \cup
  { [fn |-> "splitIntoSentences", args |-> <<a>>,
     returned |-> FALSE, value |-> Null] : a \in SentenceInputs }
    \cup
  { [fn |-> "intelligentTextSplit", args |-> <<a>>,
     returned |-> FALSE, value |-> Null] : a \in SegmenterInputs }

\* the function returns value
Returned(value) ==
  /\ evaluation' = [evaluation EXCEPT !.returned = TRUE, !.value = value]
  /\ UNCHANGED <<translationCache, calls, inserted, lastReturned, app, hook>>

ApplyIsValidTranslation ==
  /\ evaluation.fn = "isValidTranslation" /\ ~evaluation.returned
  /\ Returned(isValidTranslation(evaluation.args[1], evaluation.args[2],
                                 evaluation.args[3], evaluation.args[4]))

ApplyDictionaryTranslation ==
  /\ evaluation.fn = "dictionaryTranslation" /\ ~evaluation.returned
  /\ Returned(dictionaryTranslation(evaluation.args[1], evaluation.args[2],
                                    evaluation.args[3]))

ApplySplitIntoSentences ==
  /\ evaluation.fn = "splitIntoSentences" /\ ~evaluation.returned
  /\ Returned(splitIntoSentences(evaluation.args[1]))

ApplyIntelligentTextSplit ==
  /\ evaluation.fn = "intelligentTextSplit" /\ ~evaluation.returned
  /\ Returned(intelligentTextSplit(evaluation.args[1]))

ApplyDetectLanguageLocally ==
  /\ evaluation.fn = "detectLanguageLocally" /\ ~evaluation.returned
  /\ Returned(detectLanguageLocally(evaluation.args[1]))

InitFunctions ==
  /\ translationCache = <<>>
  /\ calls = [c \in Calls |-> Idle]
  /\ inserted = <<>>
  /\ lastReturned = 0
  /\ app = AppInitial
  /\ evaluation \in PendingEvaluations
  /\ hook = HookInitial

NextFunctions ==
  \/ ApplyIsValidTranslation
  \/ ApplyDictionaryTranslation
  \/ ApplySplitIntoSentences
  \/ ApplyIntelligentTextSplit
  \/ ApplyDetectLanguageLocally

SpecFunctions == InitFunctions /\ [][NextFunctions]_vars

(***************************************************************************)
(* One call of translateText for a document: a text of several             *)
(* paragraphs, within and over MAX_CHUNK_SIZE characters                   *)
(***************************************************************************)
DocumentTexts ==
  { <<" ", " ", "H", "e", "l", "l", "o", ".", "\n", "\n", "W", "o", "r", "l", "d", ".", " ", " ">>,
    <<" ", " ">> \o Repeat(<<"x">>, 300) \o <<".", "\n", "\n">> \o Repeat(<<"y">>, 300) \o <<".", " ", " ">>,
    Repeat(<<"x">>, 300) \o <<"\n", "\n", "\n", "\n">> \o Repeat(<<"y">>, 100) \o <<"\n", " ", "\n">>
      \o Repeat(<<"z">>, 200),
    Repeat(<<"x">>, 400) \o <<".", " ">> \o Repeat(<<"Y">>, 400) \o <<".", " ">> \o Repeat(<<"Z">>, 90)
      \o <<"?">>,
    <<"O", "n", "e", " ", "l", "i", "n", "e", " ", "o", "n", "l", "y">> }

\* what a provider may answer for a chunk: a text that starts like the
\* chunk, the chunk itself, or a text of two paragraphs
DocumentCandidates(chunk) ==
  { <<chunk[1]>> \o <<"-", "d", "e">>, chunk, <<"H", "a", "l", "l", "o", ".", "\n", "\n", "W", "e", "l", "t", ".">> }

DocumentResponses(chunk) ==
  { [kind |-> "error", status |-> 0, data |-> <<>>] }
    \cup { [kind |-> "ok", status |-> 200, data |-> d] :
             d \in DocumentCandidates(chunk) }

\* what the detector is answered for a document
DocumentDetections ==
  { [kind |-> "error", status |-> 0, data |-> <<>>],
    [kind |-> "ok", status |-> 200, data |-> <<"e", "n">>],
    [kind |-> "ok", status |-> 200, data |-> <<"D", "E">>] }

\* the request on which the call is suspended completes
DocumentRequestCompleted ==
  \/ /\ \E resp \in DocumentDetections : DetectionCompleted(1, resp)
     /\ UNCHANGED hook
  \/ /\ calls[1].pc = "google"
     /\ \E resp \in DocumentResponses(CurrentChunk(1)) :
          GoogleCompleted(1, [resp EXCEPT !.data = <<@>>])
     /\ UNCHANGED hook
  \/ /\ calls[1].pc = "mymemory"
     /\ \E resp \in DocumentResponses(CurrentChunk(1)) :
          MyMemoryCompleted(1, resp)
     /\ UNCHANGED hook
  \/ /\ calls[1].pc = "libre"
     /\ \E resp \in DocumentResponses(CurrentChunk(1)) :
          LibreCompleted(1, resp)
     /\ UNCHANGED hook

NextDocuments ==
  \/ /\ \E text \in DocumentTexts, fromLang \in {<<"e", "n">>, <<"a", "u", "t", "o">>} :
          translateText(1, text, fromLang, <<"d", "e">>)
     /\ UNCHANGED hook
  \/ DocumentRequestCompleted

SpecDocuments == Init /\ [][NextDocuments]_vars

\* call c is suspended in a request, and a step in which it resumes
Suspended(c) == calls[c].pc \in {"detect", "google", "mymemory", "libre"}
Resumed(c) == Suspended(c) /\ calls'[c] # calls[c]

\* every request that was issued completes, with a response or a failure:
\* weak fairness of DocumentRequestCompleted, which is enabled exactly while
\* the call is suspended and whose steps are the steps that resume the call
SpecDocumentsFair ==
  SpecDocuments /\ ([]<>(~Suspended(1)) \/ []<><<Resumed(1)>>_vars)

(***************************************************************************)
(* Requests that differ in the white space around the text, in the text,   *)
(* in the source code or in the target code                                *)
(***************************************************************************)

NextFingerprints ==
  \/ /\ \E c \in Calls, text \in { <<" ", "N", "o", "\n">>, <<"N", "o", " ", " ">>, <<"N", "o", "|", "e", "n">> },
           fromLang \in { <<"e", "n">>, <<"r", "u">> },
           toLang \in { <<"e", "n">>, <<"d", "e">> } :
          translateText(c, text, fromLang, toLang)
     /\ UNCHANGED hook
  \/ \E c \in Calls :
       /\ calls[c].pc = "google"
       /\ \E resp \in DocumentResponses(CurrentChunk(c)) :
            GoogleCompleted(c, [resp EXCEPT !.data = <<@>>])
       /\ UNCHANGED hook
  \/ \E c \in Calls :
       /\ calls[c].pc = "mymemory"
       /\ \E resp \in DocumentResponses(CurrentChunk(c)) :
            MyMemoryCompleted(c, resp)
       /\ UNCHANGED hook
  \/ \E c \in Calls :
       /\ calls[c].pc = "libre"
       /\ \E resp \in DocumentResponses(CurrentChunk(c)) :
            LibreCompleted(c, resp)
       /\ UNCHANGED hook

SpecFingerprints == Init /\ [][NextFingerprints]_vars

(***************************************************************************)
(* The hook with the service: calls of the hook, the requests they await   *)
(***************************************************************************)
\* the history is empty or holds 10 translations of numbers, newest first
InitHook ==
  /\ translationCache = <<>>
  /\ calls = [c \in Calls |-> Idle]
  /\ inserted = <<>>
  /\ lastReturned = 0
  /\ app = AppInitial
  /\ evaluation = NoEvaluation
  /\ hook \in { [HookInitial EXCEPT !.history =
                   [i \in 1..n |->
                      [sourceText |-> NumberText(n + 1 - i),
                       translatedText |-> NumberText(n + 1 - i),
                       fromLanguage |-> <<"e", "n">>, toLanguage |-> <<"d", "e">>]]] :
                  n \in {0, 10} }

\* extractTextFromImage returns a text that is not empty or throws (lines
\* 16-22 of ocrService.ts)
NextHook ==
  \/ \E h \in Calls, text \in { <<"N", "o">>, <<"h", "i", " ", "t", "h", "e", "r", "e", " ", " ">> },
        fromLang \in { <<"e", "n">>, <<"a", "u", "t", "o">> } :
       hookTranslateText(h, text, fromLang, <<"d", "e">>)
  \/ \E h \in Calls, fromLang \in { <<"e", "n">>, <<"a", "u", "t", "o">> } :
       hookTranslateImage(h, fromLang, <<"d", "e">>)
  \/ \E h \in Calls, extractedText \in { Threw, <<"N", "o">> } :
       OcrCompleted(h, extractedText)
  \/ \E h \in Calls, resp \in DocumentDetections :
       HookDetectionCompleted(h, resp)
  \/ \E c \in Calls :
       /\ calls[c].pc = "google"
       /\ \E resp \in DocumentResponses(CurrentChunk(c)) :
            GoogleCompleted(c, [resp EXCEPT !.data = <<@>>])
       /\ UNCHANGED hook
  \/ \E c \in Calls :
       /\ calls[c].pc = "mymemory"
       /\ \E resp \in DocumentResponses(CurrentChunk(c)) :
            MyMemoryCompleted(c, resp)
       /\ UNCHANGED hook
  \/ \E c \in Calls :
       /\ calls[c].pc = "libre"
       /\ \E resp \in DocumentResponses(CurrentChunk(c)) :
            LibreCompleted(c, resp)
       /\ UNCHANGED hook
  \/ \E h \in Calls : HookTranslationCompleted(h)
  \/ clearHistory

SpecHook == InitHook /\ [][NextHook]_vars

(***************************************************************************)
(* Properties                                                              *)
(***************************************************************************)
Started(c) == calls[c].pc # "idle"
Done(c) == calls[c].pc = "done"
Providers == {"google", "mymemory", "libre"}

\* the providers requested for chunk i by call c, in the order of request
RequestsFor(c, i) ==
  LET rs == SelectSeq(calls[c].requests,
                      LAMBDA r : r.chunk = i /\ r.api \in Providers)
  IN  [k \in 1..Len(rs) |-> rs[k].api]

\* the chunks of call c that translateChunk has returned
TranslatedChunks(c) ==
  {i \in 1..Len(calls[c].translatedChunks) : calls[c].origin[i] # "blank"}

\* C1: a call whose source and target language are the same code, other
\* than auto, returns its input text unchanged and at once
SameLanguageIdentity ==
  \A c \in Calls :
    (Started(c) /\ calls[c].fromLang = calls[c].toLang
       /\ calls[c].fromLang # <<"a", "u", "t", "o">>)
      => (Done(c) /\ calls[c].result = calls[c].text)

SameLanguageIdentityWitness ==
  \E c \in Calls :
    /\ Done(c)
    /\ calls[c].fromLang = <<"d", "e">> /\ calls[c].toLang = <<"d", "e">>
    /\ calls[c].text = <<" ", "N", "o", "\n">>
    /\ translationCache # <<>>

\* C2: no call of translateText ends in an exception, whatever the remote
\* requests deliver; a call that has ended has returned a string, and
\* detectLanguage returns a language code for every response
NeverRaises ==
  /\ \A c \in Calls :
       /\ calls[c].pc # "raised"
       /\ Done(c) => calls[c].result \notin {Null, Threw}
  /\ \A c \in Calls :
       calls[c].pc = "detect"
         => \A resp \in DetectResponses :
              detectLanguage(resp, calls[c].text) \notin {Null, Threw, <<>>}

\* detection and all three providers were requested and the call returned
NeverRaisesWitness ==
  \E c \in Calls :
    /\ Done(c)
    /\ calls[c].outcome = "translated"
    /\ Len(calls[c].requests) = 4
    /\ calls[c].origin = <<"dictionary">>
    /\ calls[c].result = <<"H", "i", " ", "t", "h", "e", "r", "e", " ", " ">>

\* C3: what translateChunk returns for a chunk is a non-empty string: a
\* candidate of a provider that the validator accepts, or an entry of the
\* dictionary for the chunk, or the chunk itself
ChunkTranslationSound ==
  \A c \in Calls : \A i \in TranslatedChunks(c) :
    LET chunk == trim(calls[c].textChunks[i])
        value == calls[c].translatedChunks[i]
        toLang == normalizeLanguageCode(calls[c].toLang)
    IN  /\ value \notin {Null, Threw, <<>>}
        /\ \/ /\ calls[c].origin[i] \in Providers
              /\ isValidTranslation(value, chunk, calls[c].detectedFromLang, toLang)
           \/ /\ calls[c].origin[i] = "dictionary"
              /\ \/ value = chunk
                 \/ \E t \in translations :
                      /\ t[1] = toLowerCase(chunk)
                      /\ t[2] = toLang
                      /\ toLowerCase(value) = t[3]

\* a chunk answered from the dictionary and one answered by a provider
ChunkTranslationSoundWitness ==
  /\ \E c \in Calls :
       /\ Done(c) /\ calls[c].origin = <<"dictionary">>
       /\ calls[c].translatedChunks = <<<<"N", "e", "i", "n">>>>
  /\ \E c \in Calls :
       /\ Done(c) /\ calls[c].origin = <<"libre">>

\* C4: for each chunk the providers are requested in the order google,
\* mymemory, libre, each only after the one before it gave no valid
\* candidate, and none after the provider whose candidate was returned
ProviderOrder ==
  \A c \in Calls : \A i \in 1..Len(calls[c].textChunks) :
    LET rs == RequestsFor(c, i)
    IN  /\ rs = SubSeq(<<"google", "mymemory", "libre">>, 1, Len(rs))
        /\ (i \in TranslatedChunks(c) /\ calls[c].origin[i] \in Providers)
             => rs[Len(rs)] = calls[c].origin[i]
        /\ (i > Len(calls[c].translatedChunks) + 1) => rs = <<>>

ProviderOrderWitness ==
  \E c \in Calls :
    /\ Done(c)
    /\ calls[c].origin = <<"mymemory">>
    /\ RequestsFor(c, 1) = <<"google", "mymemory">>

\* C5: a provider that fails, answers malformed or is rejected is followed
\* by the next provider; the dictionary answers a chunk if and only if all
\* three providers were requested for it and libre, the last, was not
\* accepted
DictionaryOnlyAfterAll ==
  \A c \in Calls : \A i \in TranslatedChunks(c) :
    /\ calls[c].origin[i] \in Providers \cup {"dictionary"}
    /\ calls[c].origin[i] = "dictionary"
         <=> (Len(RequestsFor(c, i)) = 3 /\ calls[c].origin[i] # "libre")

DictionaryOnlyAfterAllWitness ==
  \E c \in Calls :
    /\ Done(c)
    /\ calls[c].origin = <<"dictionary">>
    /\ calls[c].fromLang = <<"e", "n">>
    /\ RequestsFor(c, 1) = <<"google", "mymemory", "libre">>
    /\ calls[c].translatedChunks = <<<<"h", "i", " ", "t", "h", "e", "r", "e">>>>

\* call c is made with the arguments of the call that returned last
RepeatsLast(c) ==
  /\ calls[c].pc = "idle" /\ calls'[c].pc # "idle"
  /\ lastReturned # 0
  /\ calls'[c].text = calls[lastReturned].text
  /\ calls'[c].fromLang = calls[lastReturned].fromLang
  /\ calls'[c].toLang = calls[lastReturned].toLang

\* call c returns at once what the call that returned last returned
AnsweredAsLast(c) ==
  /\ calls'[c].pc = "done"
  /\ calls'[c].requests = <<>>
  /\ calls'[c].result = calls[lastReturned].result

\* C6: a call that repeats the request of the call that returned just
\* before it issues no request and returns the same string, for every
\* request, source language auto included
RepeatIssuesNoRequest ==
  [][\A c \in Calls : RepeatsLast(c) => AnsweredAsLast(c)]_vars

\* the same for the requests that reach line 71: only the return of lines
\* 42-44, for a detected source language equal to the target, stores nothing
RepeatOfStoredIssuesNoRequest ==
  [][\A c \in Calls :
       (RepeatsLast(c) /\ calls[lastReturned].outcome # "detected-same")
         => AnsweredAsLast(c)]_vars

\* a request with source language auto was translated and its repetition
\* was answered from the cache
RepeatOfStoredWitness ==
  \E c, d \in Calls :
    /\ c # d /\ lastReturned = d
    /\ calls[c].outcome = "translated" /\ calls[d].outcome = "hit"
    /\ calls[c].fromLang = <<"a", "u", "t", "o">> /\ calls[d].fromLang = <<"a", "u", "t", "o">>
    /\ calls[c].text = calls[d].text
    /\ calls[d].requests = <<>>
    /\ calls[d].result = calls[c].result

\* the last n elements of s
LastN(s, n) == SubSeq(s, Len(s) - n + 1, Len(s))

\* C7: the cache holds exactly the keys inserted last, in the order of
\* their insertion: at most 100 of them, so that every insertion into a full
\* cache removes one entry, the one inserted first
FifoEviction ==
  CacheKeys(translationCache) = LastN(inserted, Min(100, Len(inserted)))

\* 101 keys were inserted: the first is gone, the other 100 are present
FifoEvictionWitness ==
  /\ Len(inserted) = 101
  /\ ~CacheHas(translationCache, inserted[1])
  /\ \A k \in 2..101 : CacheHas(translationCache, inserted[k])

\* C8: in every state in which a call is suspended, and in every other
\* state, the cache holds at most 100 entries
CacheBounded == Len(translationCache) <= 100

\* an entry was evicted while another call was suspended
CacheBoundedWitness ==
  /\ Len(translationCache) = 100
  /\ Len(inserted) > 100
  /\ \E c \in Calls : calls[c].pc \in Providers \cup {"detect"}

\* C9: a call answered from the cache leaves the cache as it is: the
\* same keys with the same values in the same order
HitLeavesCache ==
  [][\A c \in Calls :
       (calls[c].pc = "idle" /\ calls'[c].outcome = "hit")
         => translationCache' = translationCache]_vars

\* a hit on an entry that is not the newest of the cache
HitLeavesCacheWitness ==
  \E c \in Calls :
    /\ calls[c].outcome = "hit"
    /\ Len(translationCache) >= 2
    /\ translationCache[1].key = cacheKey(trim(calls[c].text), calls[c].fromLang,
                                          calls[c].toLang)

\* s has exactly n characters of white space at its start (at its end)
LeadingCount(s, n) ==
  /\ n < Len(s) /\ s[n + 1] \notin WhiteSpace
  /\ \A k \in 1..n : s[k] \in WhiteSpace
TrailingCount(s, n) ==
  /\ n < Len(s) /\ s[Len(s) - n] \notin WhiteSpace
  /\ \A k \in (Len(s) - n + 1)..Len(s) : s[k] \in WhiteSpace

\* C10: the string returned for a text that is not blank is the leading
\* white space of the text, the payload (the result of the translation or
\* the cached value) without its surrounding white space, and the trailing
\* white space of the text
FormattingRestored ==
  \A c \in Calls :
    (Done(c) /\ ~IsBlank(calls[c].text))
      => LET text == calls[c].text
             payload == calls[c].payload
         IN  \E i \in 0..Len(text) : LeadingCount(text, i) /\
             \E j \in 0..Len(text) : TrailingCount(text, j) /\
             \E a \in 0..Len(payload) : LeadingCount(payload, a) /\
             \E b \in 0..Len(payload) : TrailingCount(payload, b) /\
               calls[c].result =
                 SubSeq(text, 1, i)
                   \o SubSeq(payload, a + 1, Len(payload) - b)
                   \o SubSeq(text, Len(text) - j + 1, Len(text))

\* a translated result and then a cached one, for a text with white space
\* at both ends
FormattingRestoredWitness ==
  \E c, d \in Calls :
    /\ Done(c) /\ calls[c].outcome = "translated"
    /\ Done(d) /\ calls[d].outcome = "hit"
    /\ calls[c].text = <<" ", "N", "o", "\n">> /\ calls[d].text = <<" ", "N", "o", "\n">>
    /\ calls[c].result = <<" ", "N", "e", "i", "n", "\n">> /\ calls[d].result = <<" ", "N", "e", "i", "n", "\n">>

\* C17: the toLang argument of every translateText call of the App, and the
\* target language of the App itself, is never auto, whatever source
\* languages, target languages of the target list and swaps came before
TargetNeverAuto ==
  /\ app.toLanguage # <<"a", "u", "t", "o">>
  /\ app.passed # <<"a", "u", "t", "o">>

\* a translation was requested after a swap that made the former source
\* language, chosen from the full list, the target
TargetNeverAutoWitness ==
  /\ app.passed = <<"r", "u">>
  /\ app.fromLanguage = <<"p", "l">>
  /\ app.toLanguage = <<"r", "u">>
  /\ app.loading

\* no provider gave the translation of any chunk of call c and the
\* dictionary has no entry for any of them
Degraded(c) ==
  /\ calls[c].outcome = "translated"
  /\ \A i \in 1..Len(calls[c].textChunks) :
       /\ calls[c].origin[i] = "dictionary"
       /\ ~\E t \in translations :
             /\ t[1] = toLowerCase(trim(calls[c].textChunks[i]))
             /\ t[2] = normalizeLanguageCode(calls[c].toLang)

\* C15: a call for whose every chunk all three providers failed or were
\* rejected, and the dictionary has no entry, returns the text it was given,
\* unchanged
DegradedIsIdentity ==
  \A c \in Calls :
    (Done(c) /\ Degraded(c)) => calls[c].result = calls[c].text

\* an evaluation of function fn has returned
Evaluated(fn) == evaluation.fn = fn /\ evaluation.returned

\* the candidate and the original of the evaluation are equal up to case
\* and surrounding white space
IsEcho ==
  /\ evaluation.args[1] # Null
  /\ toLowerCase(trim(evaluation.args[1]))
       = toLowerCase(trim(evaluation.args[2]))

\* C14: for a candidate that equals the original up to case, the validator
\* accepts if and only if the original has at most 3 characters, is one
\* capitalized word (an upper-case letter A-Z followed by lower-case letters
\* a-z only) or consists of digits only; the echo of cat is accepted and the
\* echo of translate this sentence is rejected
ValidatorEchoRule ==
  (Evaluated("isValidTranslation") /\ IsEcho)
    => LET original == evaluation.args[2]
       IN  /\ evaluation.value
                <=> \/ Len(original) <= 3
                    \/ /\ original[1] \in Range(UpperLetters)
                       /\ \A i \in 2..Len(original) :
                            original[i] \in Range(LowerLetters)
                    \/ \A i \in 1..Len(original) : original[i] \in Digit
           /\ original = <<"c", "a", "t">> => evaluation.value
           /\ original = <<"t", "r", "a", "n", "s", "l", "a", "t", "e", " ", "t", "h", "i", "s", " ", "s", "e", "n", "t", "e", "n", "c", "e">> => ~evaluation.value

\* the echo of cat was accepted
ValidatorEchoRuleWitness ==
  /\ Evaluated("isValidTranslation")
  /\ evaluation.args[1] = <<"c", "a", "t">> /\ evaluation.args[2] = <<"c", "a", "t">>
  /\ evaluation.value

\* the echo of translate this sentence was rejected
ValidatorEchoRejected ==
  /\ Evaluated("isValidTranslation")
  /\ evaluation.args[1] = <<"t", "r", "a", "n", "s", "l", "a", "t", "e", " ", "t", "h", "i", "s", " ", "s", "e", "n", "t", "e", "n", "c", "e">>
  /\ evaluation.args[2] = <<"t", "r", "a", "n", "s", "l", "a", "t", "e", " ", "t", "h", "i", "s", " ", "s", "e", "n", "t", "e", "n", "c", "e">>
  /\ ~evaluation.value

\* the words of s, separated by white space, by the index of their first
\* character
WordStarts(s) ==
  {i \in 1..Len(s) : s[i] \notin WhiteSpace /\ (i = 1 \/ s[i - 1] \in WhiteSpace)}
WordAt(s, i) ==
  SubSeq(s, i, CHOOSE e \in i..Len(s) :
                 /\ \A k \in i..e : s[k] \notin WhiteSpace
                 /\ (e = Len(s) \/ s[e + 1] \in WhiteSpace))

\* C19: a candidate that is not an echo of the original is rejected when it
\* has more than 3 words separated by white space and fewer distinct
\* lower-cased words than 0.7 times its number of words; a candidate of 3
\* words or fewer is rejected only for the text of an API error
ValidatorRepetitionRule ==
  (Evaluated("isValidTranslation") /\ evaluation.args[1] # Null /\ ~IsEcho)
    => LET candidate == toLowerCase(evaluation.args[1])
           n == Cardinality(WordStarts(candidate))
           u == Cardinality({WordAt(candidate, i) : i \in WordStarts(candidate)})
       IN  /\ (n > 3 /\ 10 * u < 7 * n) => ~evaluation.value
           /\ (n \in 1..3 /\ ~evaluation.value) => IsGarbage(evaluation.args[1])

\* a candidate of 10 words, 6 of them distinct, was rejected and one of 3
\* equal words is evaluated too
ValidatorRepetitionRuleWitness ==
  /\ Evaluated("isValidTranslation")
  /\ evaluation.args[1] = <<"a", " ", "b", " ", "c", " ", "d", " ", "e", " ", "f", " ", "a", " ", "b", " ", "c", " ", "d">>
  /\ ~evaluation.value

\* a candidate of 3 equal words was accepted
ThreeEqualWordsAccepted ==
  /\ Evaluated("isValidTranslation")
  /\ evaluation.args[1] = <<"a", " ", "a", " ", "a">>
  /\ evaluation.value

IsAbbreviationPeriod(t, i) ==
  /\ t[i] = "."
  /\ \E a \in DOMAIN abbreviations :
       LET start == i - Len(abbreviations[a])
       IN  /\ start >= 1
           /\ toLowerCase(SubSeq(t, start, i - 1)) = abbreviations[a]
           /\ (start = 1 \/ ~IsLetter(t[start - 1]))

\* s without the sentence terminators and the white space at its end
WithoutTerminators(s) ==
  LET Ends == SentenceEnd \cup WhiteSpace
  IN  IF \A i \in 1..Len(s) : s[i] \in Ends THEN <<>>
      ELSE SubSeq(s, 1, CHOOSE e \in 1..Len(s) :
                          /\ s[e] \notin Ends
                          /\ \A k \in (e + 1)..Len(s) : s[k] \in Ends)

\* the sentences of t when it is split at every run of terminators that is
\* followed by white space and an upper-case letter, or by the end of the
\* text, and that is not the period of a listed abbreviation
SentencesOf(t) ==
  LET IsBreak(j) ==
        LET e == EndOfTerminators(t, j)
            n == SkipWhiteSpace(t, e + 1)
        IN  /\ n > Len(t) \/ (n > e + 1 /\ IsSentenceStart(t[n]))
            /\ ~IsAbbreviationPeriod(t, j)
      breaks == SelectSeq(TerminatorRuns(t), IsBreak)
      pieces == [k \in 1..(Len(breaks) + 1) |->
                   trim(SubSeq(t,
                     IF k = 1 THEN 1
                     ELSE EndOfTerminators(t, breaks[k - 1]) + 1,
                     IF k <= Len(breaks) THEN breaks[k] - 1 ELSE Len(t)))]
  IN  SelectSeq(pieces, LAMBDA s : s # <<>>)

\* C13: splitIntoSentences splits a text at no period of a listed
\* abbreviation and at every other run of sentence terminators that is
\* followed by white space and an upper-case letter or by the end of the
\* text: up to the terminators at their ends, the sentences it returns are
\* the sentences between those places, two of them for the text about Dr.
\* Smith
AbbreviationSafety ==
  Evaluated("splitIntoSentences")
    => LET t == evaluation.args[1]
           sentences == evaluation.value
           expected == SentencesOf(t)
       IN  /\ Len(sentences) = Len(expected)
           /\ \A k \in 1..Len(sentences) :
                WithoutTerminators(sentences[k]) = WithoutTerminators(expected[k])
           /\ t = <<"D", "r", ".", " ", "S", "m", "i", "t", "h", " ", "w", "e", "n", "t", " ", "h", "o", "m", "e", ".", " ", "H", "e", " ", "w", "a", "s", " ", "t", "i", "r", "e", "d", ".">>
                => sentences = <<<<"D", "r", ".", " ", "S", "m", "i", "t", "h", " ", "w", "e", "n", "t", " ", "h", "o", "m", "e">>, <<"H", "e", " ", "w", "a", "s", " ", "t", "i", "r", "e", "d">>>>

\* the part of C13 that holds of the code: the text about Dr. Smith is
\* split into two sentences, after home. and at tired.
DrSmithTwoSentences ==
  (Evaluated("splitIntoSentences")
     /\ evaluation.args[1] = <<"D", "r", ".", " ", "S", "m", "i", "t", "h", " ", "w", "e", "n", "t", " ", "h", "o", "m", "e", ".", " ", "H", "e", " ", "w", "a", "s", " ", "t", "i", "r", "e", "d", ".">>)
    => evaluation.value = <<<<"D", "r", ".", " ", "S", "m", "i", "t", "h", " ", "w", "e", "n", "t", " ", "h", "o", "m", "e">>, <<"H", "e", " ", "w", "a", "s", " ", "t", "i", "r", "e", "d">>>>

\* the chunks from chunks[k] on stand in t from index from on, in order,
\* with nothing but white space before, between and after them
RECURSIVE ChunksCover(_, _, _, _)
ChunksCover(t, chunks, k, from) ==
  IF k > Len(chunks)
  THEN \A i \in from..Len(t) : t[i] \in WhiteSpace
  ELSE \E p \in from..SkipWhiteSpace(t, from) :
         /\ p + Len(chunks[k]) - 1 <= Len(t)
         /\ SubSeq(t, p, p + Len(chunks[k]) - 1) = chunks[k]
         /\ ChunksCover(t, chunks, k + 1, p + Len(chunks[k]))

\* C12: of a trimmed text of at most 500 characters intelligentTextSplit
\* returns one chunk, the text; of a longer text it returns chunks that,
\* in order and with white space as the delimiters between them, make up
\* the text again, so that no other character of the text is lost
SegmentationRoundTrip ==
  Evaluated("intelligentTextSplit")
    => LET t == evaluation.args[1]
           chunks == evaluation.value
       IN  IF Len(t) <= 500 THEN chunks = <<t>>
           ELSE ChunksCover(t, chunks, 1, 1)

\* the part of C12 that holds of the code: a text within the budget comes
\* back as one chunk, and the chunks of a longer text whose paragraphs are
\* all within the budget make up the text again
RoundTripOfShortParagraphs ==
  Evaluated("intelligentTextSplit")
    => LET t == evaluation.args[1]
           chunks == evaluation.value
           paragraphs == SplitParagraphs(t)
       IN  (\A p \in 1..Len(paragraphs) : Len(paragraphs[p]) <= 500)
             => /\ ChunksCover(t, chunks, 1, 1)
                /\ Len(t) <= 500 => chunks = <<t>>

\* the chunk, up to the terminators at its end, is one sentence of a
\* paragraph of t
IsSingleSentence(chunk, t) ==
  LET paragraphs == SplitParagraphs(t)
  IN  \E p \in 1..Len(paragraphs) :
        \E k \in 1..Len(SentencesOf(paragraphs[p])) :
          WithoutTerminators(chunk)
            = WithoutTerminators(SentencesOf(paragraphs[p])[k])

\* C18: every chunk that intelligentTextSplit returns has at most 500
\* characters, or is a single sentence of more than 500 characters, which
\* is in a chunk of its own
ChunkSizeBudget ==
  Evaluated("intelligentTextSplit")
    => \A k \in 1..Len(evaluation.value) :
         \/ Len(evaluation.value[k]) <= 500
         \/ IsSingleSentence(evaluation.value[k], evaluation.args[1])

\* the part of C18 that holds of the code: a chunk of more than 500
\* characters is one element of what splitIntoSentences returns for a
\* paragraph, or the whole text when no paragraph gave a chunk
ChunkOverBudgetIsOneSentence ==
  Evaluated("intelligentTextSplit")
    => LET t == evaluation.args[1]
           chunks == evaluation.value
           paragraphs == SplitParagraphs(t)
       IN  \A k \in 1..Len(chunks) :
             \/ Len(chunks[k]) <= 500
             \/ chunks = <<t>>
             \/ \E p \in 1..Len(paragraphs) :
                  \E s \in 1..Len(splitIntoSentences(paragraphs[p])) :
                    chunks[k] = splitIntoSentences(paragraphs[p])[s]

\* C11: the result of a translated call has as many paragraphs, separated
\* by a blank line, as the text of the call; the result for the text of
\* the paragraphs Hello. and World. has a blank line
ParagraphStructureSurvives ==
  \A c \in Calls :
    (Done(c) /\ calls[c].outcome = "translated")
      => /\ Len(SplitParagraphs(trim(calls[c].result)))
              = Len(SplitParagraphs(trim(calls[c].text)))
         /\ calls[c].text = <<" ", " ", "H", "e", "l", "l", "o", ".", "\n", "\n", "W", "o", "r", "l", "d", ".", " ", " ">>
              => Includes(calls[c].result, <<"\n", "\n">>)

\* the part of C11 that holds of the code: the white space at the start
\* and at the end of the text is that of the result, and the result has no
\* run of 3 newlines or more inside
SurroundingWhiteSpaceSurvives ==
  \A c \in Calls :
    (Done(c) /\ calls[c].outcome = "translated")
      => /\ leadingWhitespace(calls[c].result) = leadingWhitespace(calls[c].text)
         /\ trailingWhitespace(calls[c].result) = trailingWhitespace(calls[c].text)
         /\ ~Includes(trim(calls[c].result), <<"\n", "\n", "\n">>)

\* C20: a call translates its chunks one at a time and in their order: the
\* one request that is outstanding is for the first chunk without a
\* translation, every request made so far is for that chunk or one before
\* it, in the order of the chunks, chunk i has got an answer to chunk i, and
\* the chunks are put together in the order of the source chunks
ChunksInOrder ==
  \A c \in Calls :
    LET st == calls[c]
        n == Len(st.translatedChunks)
        rs == SelectSeq(st.requests, LAMBDA r : r.api \in Providers)
    IN  /\ n <= Len(st.textChunks)
        /\ st.pc \in Providers
             => /\ n < Len(st.textChunks)
                /\ rs[Len(rs)].api = st.pc /\ rs[Len(rs)].chunk = n + 1
                /\ RequestsFor(c, n + 1)
                     = SubSeq(translationMethods, 1, st.method)
        /\ \A k \in 1..Len(rs) :
             /\ rs[k].chunk <= (IF st.pc \in Providers THEN n + 1 ELSE n)
             /\ \A j \in 1..(k - 1) : rs[j].chunk <= rs[k].chunk
        /\ \A i \in 1..n :
             LET chunk == trim(st.textChunks[i])
             IN  \/ /\ st.origin[i] = "dictionary"
                    /\ st.translatedChunks[i] = chunk
                 \/ /\ st.origin[i] \in Providers
                    /\ \E d \in DocumentCandidates(chunk) :
                         st.translatedChunks[i] = cleanTranslatedText(d)
        /\ (Done(c) /\ st.outcome = "translated")
             => /\ n = Len(st.textChunks)
                /\ st.payload
                     = postProcessTranslation(
                         CollapseNewlines(
                           Join(st.translatedChunks, <<"\n", "\n">>)),
                         st.detectedFromLang, <<"d", "e">>)

\* a text of three chunks, the first answered by the second provider, the
\* second by the dictionary and the third by the third provider
ChunksInOrderWitness ==
  \E c \in Calls :
    /\ Done(c)
    /\ Len(calls[c].textChunks) = 3
    /\ calls[c].origin = <<"mymemory", "dictionary", "libre">>
    /\ calls[c].translatedChunks[1] = <<"x", "-", "d", "e">>
    /\ calls[c].translatedChunks[3] = <<"z", "-", "d", "e">>
    /\ Len(calls[c].requests) = 8

\* the Map holds a key once
CacheKeysDistinct ==
  \A i, j \in 1..Len(translationCache) :
    translationCache[i].key = translationCache[j].key => i = j

\* C21: an entry of the cache is never written again: in every step the
\* keys that stay in the cache keep their values, under every interleaving
\* of the suspended calls, and no key is held twice
CacheEntriesReadOnly ==
  /\ []CacheKeysDistinct
  /\ [][\A i \in 1..Len(translationCache) :
          \A j \in 1..Len(translationCache') :
            translationCache'[j].key = translationCache[i].key
              => translationCache'[j].value = translationCache[i].value]_vars

\* C22: a call for whose every chunk all three providers failed or were
\* rejected, and the dictionary has no entry, leaves the cache as it is when
\* it returns, and the call that repeats its request is not answered at
\* once: it requests the detector or a provider again
EchoNotStored ==
  [][/\ \A c \in Calls :
          (~Done(c) /\ Done(c)' /\ Degraded(c)')
            => translationCache' = translationCache
      /\ \A d \in Calls :
          (RepeatsLast(d) /\ Degraded(lastReturned))
            => calls'[d].pc \in Providers \cup {"detect"}]_vars

\* the script classes: the Cyrillic letters, the ideographs, the kana (the
\* syllables of both syllabaries that the texts use), the Hangul syllables
\* and the Arabic letters, each with its language, in the order of the test
Kana ==
  Japanese \cup
    { "U+3053", "U+3093", "U+306B", "U+3061", "U+306F", "U+3042", "U+308A",
      "U+3068", "U+3046", "U+30B3", "U+30F3", "U+30D4", "U+30E5", "U+30FC" }

ScriptClasses ==
  << [lang |-> <<"r", "u">>, class |-> Range(CyrillicLower) \cup Range(CyrillicUpper)],
     [lang |-> <<"z", "h">>, class |-> Chinese],
     [lang |-> <<"j", "a">>, class |-> Kana],
     [lang |-> <<"k", "o">>, class |-> Korean],
     [lang |-> <<"a", "r">>, class |-> Arabic] >>

\* more than 30% of the characters of t that are not white space are of
\* class k
Prevails(t, k) ==
  10 * Cardinality({i \in 1..Len(t) : t[i] \in ScriptClasses[k].class})
    > 3 * Cardinality({i \in 1..Len(t) : t[i] \notin WhiteSpace})

\* C23: for a text in which a script class has more than 30% of the
\* characters that are not white space, detectLanguageLocally returns the
\* language of the first such class in the order ru, zh, ja, ko, ar; a
\* text of kana is detected as ja
ScriptRatioDetection ==
  Evaluated("detectLanguageLocally")
    => \A k \in DOMAIN ScriptClasses :
         (Prevails(evaluation.args[1], k)
            /\ \A j \in 1..(k - 1) : ~Prevails(evaluation.args[1], j))
           => evaluation.value = ScriptClasses[k].lang

\* the part of C23 that holds of the code: the same with the class of kana
\* being the seven characters of line 442
ScriptRatioDetectionOfListedKana ==
  Evaluated("detectLanguageLocally")
    => LET t == evaluation.args[1]
           Over(class) ==
             10 * CountIn(t, class)
               > 3 * Cardinality({i \in 1..Len(t) : t[i] \notin WhiteSpace})
           ru == Over(Range(CyrillicLower) \cup Range(CyrillicUpper))
       IN  /\ ru => evaluation.value = <<"r", "u">>
           /\ (~ru /\ Over(Chinese)) => evaluation.value = <<"z", "h">>
           /\ (~ru /\ ~Over(Chinese) /\ Over(Japanese))
                => evaluation.value = <<"j", "a">>
           /\ (~ru /\ ~Over(Chinese) /\ ~Over(Japanese) /\ Over(Korean))
                => evaluation.value = <<"k", "o">>
           /\ (~ru /\ ~Over(Chinese) /\ ~Over(Japanese) /\ ~Over(Korean)
                 /\ Over(Arabic))
                => evaluation.value = <<"a", "r">>

\* C26: no request of a translation provider has the source language auto:
\* a call whose source language normalizes to auto hands over what the
\* detector returned, every other call its normalized source language, and
\* the detector returns auto for no response, remote or local
SourceNeverAuto ==
  \A c \in Calls :
    /\ \A k \in 1..Len(calls[c].requests) :
         calls[c].requests[k].api \in Providers
           => /\ calls[c].requests[k].sl # Auto
              /\ calls[c].requests[k].sl = calls[c].detectedFromLang
              /\ normalizeLanguageCode(calls[c].fromLang) # Auto
                   => calls[c].requests[k].sl
                        = normalizeLanguageCode(calls[c].fromLang)
              /\ normalizeLanguageCode(calls[c].fromLang) = Auto
                   => calls[c].requests[1].api = "detect"
    /\ calls[c].pc = "detect"
         => /\ normalizeLanguageCode(calls[c].fromLang) = Auto
            /\ \A resp \in DetectResponses :
                 detectLanguage(resp, calls[c].text) # Auto

\* calls with the source languages auto and AUTO: the detector was answered
\* with a code that normalizes to auto and the providers were requested
\* with the language found locally
SourceNeverAutoWitness ==
  \E c, d \in Calls :
    /\ calls[c].fromLang = <<"a", "u", "t", "o">> /\ calls[d].fromLang = <<"A", "U", "T", "O">>
    /\ calls[c].text = <<"h", "i", " ", "t", "h", "e", "r", "e", " ", " ">>
    /\ Len(calls[c].requests) >= 2 /\ Len(calls[d].requests) >= 2
    /\ calls[c].requests[1].api = "detect"
    /\ calls[c].requests[2] = [api |-> "google", chunk |-> 1, sl |-> <<"e", "n">>]
    /\ calls[d].requests[2].api = "google"

\* C27: when the detector of a call with source language auto finds the
\* normalized target language, the call returns at once the text it was
\* given, has made no request but the one of the detector, and the cache
\* stays as it is
DetectedTargetReturnsInput ==
  [][\A c \in Calls :
       (/\ calls[c].pc = "detect" /\ calls'[c].pc # "detect"
        /\ calls'[c].detectedFromLang = normalizeLanguageCode(calls[c].toLang))
         => /\ calls'[c].pc = "done"
            /\ calls'[c].result = calls[c].text
            /\ calls'[c].requests = <<[api |-> "detect", chunk |-> 0,
                                       sl |-> Auto]>>
            /\ translationCache' = translationCache]_vars

\* the detector found de for a text to translate into de, after it had
\* found en for the same request of another call, which stored its result
DetectedTargetReturnsInputWitness ==
  \E c, d \in Calls :
    /\ Done(c) /\ calls[c].outcome = "detected-same"
    /\ calls[c].text = <<"h", "i", " ", "t", "h", "e", "r", "e", " ", " ">> /\ calls[c].result = <<"h", "i", " ", "t", "h", "e", "r", "e", " ", " ">>
    /\ calls[c].detectedFromLang = <<"d", "e">>
    /\ lastReturned = c
    /\ Done(d) /\ calls[d].outcome = "translated"
    /\ calls[d].text = calls[c].text /\ calls[d].fromLang = calls[c].fromLang
    /\ CacheKeys(translationCache) = <<<<"h", "i", " ", "t", "h", "e", "r", "e", "|", "a", "u", "t", "o", "|", "d", "e">>>>

\* the key under which call c reads and writes the cache
Fingerprint(c) ==
  cacheKey(trim(calls[c].text), calls[c].fromLang, calls[c].toLang)

\* call c got past lines 15-24: its codes differ and its text is not blank
Keyed(c) ==
  /\ Started(c)
  /\ calls[c].outcome \notin {"same", "blank"}

\* result is payload, trimmed, inside the white space that surrounds text
InWhiteSpaceOf(text, payload, result) ==
  \E i \in 0..Len(text) : \E j \in i..Len(text) :
    /\ text = SubSeq(text, 1, i) \o trim(text) \o SubSeq(text, j + 1, Len(text))
    /\ result
         = SubSeq(text, 1, i) \o trim(payload) \o SubSeq(text, j + 1, Len(text))

\* C28: two requests have the same key exactly if they have the same
\* trimmed text, source code and target code; a request made while the cache
\* holds the entry of a translated request of the same trimmed text and
\* codes is answered at once from that entry, without a request, inside the
\* white space of its own text, and a call answered from the cache returns
\* the value of an entry of its own trimmed text and codes
FingerprintSharing ==
  /\ [](\A c, d \in Calls :
          (Keyed(c) /\ Keyed(d))
            => (Fingerprint(c) = Fingerprint(d)
                  <=> /\ trim(calls[c].text) = trim(calls[d].text)
                      /\ calls[c].fromLang = calls[d].fromLang
                      /\ calls[c].toLang = calls[d].toLang))
  /\ [][\A c, d \in Calls :
          (/\ Done(c) /\ calls[c].outcome = "translated"
           /\ CacheHas(translationCache, Fingerprint(c))
           /\ calls[d].pc = "idle" /\ calls'[d].pc # "idle"
           /\ trim(calls'[d].text) = trim(calls[c].text)
           /\ calls'[d].fromLang = calls[c].fromLang
           /\ calls'[d].toLang = calls[c].toLang)
            => /\ calls'[d].pc = "done" /\ calls'[d].requests = <<>>
               /\ translationCache' = translationCache
               /\ InWhiteSpaceOf(calls'[d].text,
                                 CacheGet(translationCache, Fingerprint(c)),
                                 calls'[d].result)]_vars
  /\ [][\A d \in Calls :
          (calls[d].pc = "idle" /\ calls'[d].outcome = "hit")
            => \E c \in Calls :
                 /\ Done(c) /\ calls[c].outcome = "translated"
                 /\ trim(calls'[d].text) = trim(calls[c].text)
                 /\ calls'[d].fromLang = calls[c].fromLang
                 /\ calls'[d].toLang = calls[c].toLang]_vars

\* a text with white space at its start was translated and the same text
\* with white space at its end was answered from the cache
FingerprintSharingWitness ==
  \E c, d \in Calls :
    /\ calls[c].text = <<" ", "N", "o", "\n">> /\ calls[d].text = <<"N", "o", " ", " ">>
    /\ calls[c].fromLang = <<"e", "n">> /\ calls[d].fromLang = <<"e", "n">>
    /\ calls[c].toLang = <<"d", "e">> /\ calls[d].toLang = <<"d", "e">>
    /\ calls[c].outcome = "translated" /\ calls[d].outcome = "hit"
    /\ calls[c].result = <<" ", "N", "-", "d", "e", "\n">> /\ calls[d].result = <<"N", "-", "d", "e", " ", " ">>
    /\ Len(translationCache) = 1

\* requests of one trimmed text that differ in a code have two entries
FingerprintsApart ==
  \E c, d \in Calls :
    /\ trim(calls[c].text) = trim(calls[d].text)
    /\ calls[c].fromLang # calls[d].fromLang
    /\ calls[c].outcome = "translated" /\ calls[d].outcome = "translated"
    /\ Len(translationCache) = 2

\* the requests of provider p for chunk i that call c has made
RequestsOf(c, p, i) ==
  {k \in 1..Len(calls[c].requests) :
     calls[c].requests[k].api = p /\ calls[c].requests[k].chunk = i}

\* C25: a call requests each provider at most once for each chunk that is
\* not blank and not at all for a blank chunk, and the detector at most
\* once: at most 3 requests of providers for each chunk that is not blank,
\* and one of the detector
NoRetries ==
  \A c \in Calls :
    LET chunks == calls[c].textChunks
        nonBlank == Cardinality({i \in 1..Len(chunks) : ~IsBlank(chunks[i])})
        ofProviders == {k \in 1..Len(calls[c].requests) :
                          calls[c].requests[k].api \in Providers}
    IN  /\ \A i \in 1..Len(chunks) : \A p \in Providers :
             Cardinality(RequestsOf(c, p, i))
               <= (IF IsBlank(chunks[i]) THEN 0 ELSE 1)
        /\ Cardinality(RequestsOf(c, "detect", 0)) <= 1
        /\ Cardinality(ofProviders) <= 3 * nonBlank
        /\ \A k \in 1..Len(calls[c].requests) :
             \/ k \in RequestsOf(c, "detect", 0)
             \/ /\ k \in ofProviders
                /\ calls[c].requests[k].chunk \in 1..Len(chunks)
        /\ Len(calls[c].requests) <= 3 * nonBlank + 1

\* a call with source language auto and a text of three chunks has made the
\* request of the detector and 9 requests of providers
NoRetriesWitness ==
  \E c \in Calls :
    /\ Done(c) /\ calls[c].fromLang = <<"a", "u", "t", "o">>
    /\ Len(calls[c].textChunks) = 3
    /\ Len(calls[c].requests) = 10
    /\ calls[c].origin = <<"dictionary", "dictionary", "dictionary">>

\* C24: if every request that a call has issued completes, with a response
\* or with a failure, the call returns
Termination ==
  \A c \in Calls : (calls[c].pc # "idle") ~> (calls[c].pc = "done")

\* a call has returned after the detector and every provider had failed
\* for one chunk and a provider had answered for the other
TerminationWitness ==
  \E c \in Calls :
    /\ Done(c) /\ calls[c].fromLang = <<"a", "u", "t", "o">>
    /\ calls[c].origin = <<"dictionary", "libre">>
    /\ Len(calls[c].requests) = 7
    /\ calls[c].result # calls[c].text

\* the calls of the hook that are in flight: made and neither returned nor
\* failed
InFlight == {h \in Calls : hook.calls[h].pc \in {"ocr", "detect", "translate"}}

\* C29: the history of the hook never holds more than 10 items; a call that
\* succeeds puts its item first, keeps the order of the others and drops what
\* lies beyond the 10th place; a call that fails, in the OCR or in the
\* translation, leaves the history as it was; nothing else but clearHistory
\* changes the history
HistoryBounded ==
  /\ [](Len(hook.history) <= 10)
  /\ [][\A h \in Calls :
          LET hc == hook.calls[h]
              old == hook.history
              new == hook.history'
          IN  /\ (h \in InFlight /\ hook.calls'[h].pc = "done") =>
                   /\ Len(new) = Min(Len(old) + 1, 10)
                   /\ new[1].translatedText = calls[hc.slot].result
                   /\ new[1].sourceText =
                        (IF hc.kind = "image" THEN <<"[", "I", "M", "A", "G", "E", "]", " ">> ELSE <<>>)
                          \o hc.text
                   /\ new[1].fromLanguage = hc.detectedFromLang
                   /\ new[1].fromLanguage # <<"a", "u", "t", "o">>
                   /\ new[1].toLanguage = hc.toLang
                   /\ \A k \in 2..Len(new) : new[k] = old[k - 1]
              /\ (h \in InFlight /\ hook.calls'[h].pc = "failed") =>
                   new = old]_vars
  /\ [][hook.history' # hook.history =>
          \/ hook.history' = <<>>
          \/ \E h \in InFlight : hook.calls'[h].pc = "done"]_vars

\* a call of translateImage has failed in the OCR and a translation of an
\* image has been put first in a history of 10 items, the 10th of which was
\* dropped
HistoryBoundedWitness ==
  \E g, h \in Calls :
    /\ hook.calls[g].pc = "failed" /\ hook.calls[g].kind = "image"
    /\ hook.calls[h].pc = "done" /\ hook.calls[h].kind = "image"
    /\ Len(hook.history) = 10
    /\ hook.history[1].sourceText = <<"[", "I", "M", "A", "G", "E", "]", " ", "N", "o">>
    /\ hook.history[1].translatedText = <<"N", "e", "i", "n">>
    /\ hook.history[10] = [sourceText |-> <<"2">>, translatedText |-> <<"2">>,
                           fromLanguage |-> <<"e", "n">>, toLanguage |-> <<"d", "e">>]

\* C30: loading is true exactly in the states in which a call of
\* translateText or translateImage of the hook is in flight
LoadingWhileInFlight ==
  hook.loading = (InFlight # {})

=============================================================================
